---- MODULE Spec2Model ----
(***************************************************************************)
(* Client-side polling and chat reconciliation of RepoTestPage             *)
(* (src/pages/[...slug].js).  The page keeps React state, three effects    *)
(* (history load, main poll, chat poll) and one submit handler; the remote *)
(* agent service is the environment.  Effects are re-synchronised by React *)
(* in a task of their own after the render that changed their             *)
(* dependencies, so an effect's cleanup is a step separate from the        *)
(* handler that called the state setter.                                   *)
(***************************************************************************)
EXTENDS Integers, Sequences, FiniteSets, Bags, TLC

\* ------------------------------------------------------------------ bounds
MaxInFlight == 2      \* poll fetches of one poller that overlap
MaxFails == 3         \* consecutive failed polls that are counted
MaxChats == 1         \* follow-up messages the user sends

\* ------------------------------------------------------- program constants
StaleAfterMs == 3600000

\* ---------------------------------------------------------- JSON encoding
null == "null"
undefined == "undefined"
Absent == [isArray |-> FALSE, items |-> <<>>]
Arr(s) == [isArray |-> TRUE, items |-> s]
NullResp == [isNull |-> TRUE]

\* created_at is ms on the model's clock, or one of two marks: the field is
\* absent (NoDate), the field is null (NullDate)
NoDate == -1000000000
NullDate == -1000000001

\* status strings the remote service may send, in several letter cases: for
\* the page's own response and for a follow-up
MainStatuses == {"pending", "processing", "completed", "failed", "cancelled"}
ChatStatuses == {"pending", "PENDING", "processing", "completed"}
StatusValues == MainStatuses \cup ChatStatuses

\* String(status).toLowerCase()
toLowerCase(s) ==
  CASE s = "PENDING" -> "pending"
    [] s = "COMPLETED" -> "completed"
    [] s = "Completed" -> "completed"
    [] s = "FAILED" -> "failed"
    [] s = "Failed" -> "failed"
    [] s = "CANCELLED" -> "cancelled"
    [] s = "Cancelled" -> "cancelled"
    [] s = "CANCELED" -> "canceled"
    [] s = "Busy_Timeout" -> "busy_timeout"
    [] s = "COMMENTARY" -> "commentary"
    [] s = "Commentary" -> "commentary"
    [] s = "Tool_Call" -> "tool_call"
    [] OTHER -> s

TERMINAL_STATUSES == {"completed", "failed", "cancelled"}

isTerminalAsSpelled(status) ==
  IF status = "" \/ status = null \/ status = undefined THEN FALSE
  ELSE status \in TERMINAL_STATUSES

isTerminal(status) ==
  IF status = "" \/ status = null \/ status = undefined THEN FALSE
  ELSE toLowerCase(status) \in TERMINAL_STATUSES

\* a JSON value that is not an object: a string, a number, a boolean
Primitive(v) == [prim |-> v]
IsPrimitive(resp) == "prim" \in DOMAIN resp

\* a field that holds something other than an array
NotArr(v) == [isArray |-> FALSE, items |-> <<>>, value |-> v]

normalizeResponseAsReceived(resp) ==
  IF resp = NullResp \/ IsPrimitive(resp) THEN NullResp ELSE resp

normalizeResponse(resp) ==
  IF resp = NullResp \/ IsPrimitive(resp) THEN NullResp
  ELSE [resp EXCEPT
          !.segments = IF resp.segments.isArray THEN resp.segments ELSE Arr(<<>>),
          !.output_content = IF resp.output_content.isArray
                             THEN resp.output_content ELSE Arr(<<>>)]

\* ------------------------------------------------------------------ text
\* a string is the sequence of its characters; a value that may be a string,
\* null/undefined or something else is wrapped
NoText == [isNull |-> TRUE]
Str(chars) == [chars |-> chars]
NotStr(v) == [other |-> v]
IsString(v) == "chars" \in DOMAIN v

\* JavaScript truthiness of such a value
Truthy(v) == v # NoText /\ (IsString(v) => v.chars # <<>>)
OrElse(a, b) == IF Truthy(a) THEN a ELSE b

\* \s of a regular expression, String.prototype.trim
IsSpace(c) == c \in {" ", "\t", "\n"}

Indices(s) == [i \in 1..Len(s) |-> i]

trimChars(s) ==
  LET IsSolid(i) == ~IsSpace(s[i])
      solid == SelectSeq(Indices(s), IsSolid)
  IN IF solid = <<>> THEN <<>> ELSE SubSeq(s, solid[1], solid[Len(solid)])

\* replace(/\s+/g, ' '): of every whitespace run the first character stays,
\* as a space
CollapseWhitespace(s) ==
  LET StartsRun(i) == ~IsSpace(s[i]) \/ i = 1 \/ ~IsSpace(s[i - 1])
      kept == SelectSeq(Indices(s), StartsRun)
  IN [k \in 1..Len(kept) |-> IF IsSpace(s[kept[k]]) THEN " " ELSE s[kept[k]]]

\* split(/(?<=[.!?])\s+/): cut at every whitespace run that follows a sentence end
SentenceEnds == {".", "!", "?"}

RECURSIVE SkipSpaces(_, _)
SkipSpaces(s, i) == IF i <= Len(s) /\ IsSpace(s[i]) THEN SkipSpaces(s, i + 1) ELSE i

SplitSentences(s) ==
  LET IsCut(i) == IsSpace(s[i]) /\ i > 1 /\ s[i - 1] \in SentenceEnds
      cuts == SelectSeq(Indices(s), IsCut)
  IN [k \in 1..(Len(cuts) + 1) |->
        SubSeq(s, IF k = 1 THEN 1 ELSE SkipSpaces(s, cuts[k - 1]),
                  IF k = Len(cuts) + 1 THEN Len(s) ELSE cuts[k] - 1)]

\* filter(Boolean) on strings
NonEmpty(piece) == piece # <<>>

\* the one-character ellipsis U+2026
Ellipsis == "U+2026"

\* -------------------------------------------------------- status classifier
RECURSIVE ScanBackward(_, _)
ScanBackward(items, idx) ==
  IF idx < 1 THEN NoText
  ELSE LET entry == items[idx] IN
       IF ~entry.isObject THEN ScanBackward(items, idx - 1)
       ELSE LET text == OrElse(OrElse(entry.text, entry.content), Str(<<>>)) IN
            IF /\ toLowerCase(entry.type) = "commentary"
               /\ IsString(text)
               /\ trimChars(text.chars) # <<>>
            THEN text
            ELSE ScanBackward(items, idx - 1)

extractFromLastEntry(segments) ==
  IF ~segments.isArray \/ segments.items = <<>> THEN NoText
  ELSE ScanBackward(<<segments.items[Len(segments.items)]>>, 1)

extractLatestCommentary(segments) ==
  IF ~segments.isArray THEN NoText
  ELSE ScanBackward(segments.items, Len(segments.items))

formatCommentaryCutAt140(commentary) ==
  IF ~Truthy(commentary) THEN NoText
  ELSE LET cleaned == trimChars(CollapseWhitespace(commentary.chars)) IN
       IF cleaned = <<>> THEN NoText
       ELSE IF Len(cleaned) <= 140 THEN Str(cleaned)
       ELSE LET sentences == SelectSeq(SplitSentences(cleaned), NonEmpty) IN
            IF Len(sentences) > 0 /\ Len(sentences[Len(sentences)]) <= 140
            THEN Str(sentences[Len(sentences)])
            ELSE Str(Append(SubSeq(cleaned, 1, 140), Ellipsis))

formatCommentaryUncollapsed(commentary) ==
  IF ~Truthy(commentary) THEN NoText
  ELSE LET cleaned == trimChars(commentary.chars) IN
       IF cleaned = <<>> THEN NoText
       ELSE IF Len(cleaned) <= 140 THEN Str(cleaned)
       ELSE LET sentences == SelectSeq(SplitSentences(cleaned), NonEmpty) IN
            IF Len(sentences) > 0 /\ Len(sentences[Len(sentences)]) <= 140
            THEN Str(sentences[Len(sentences)])
            ELSE Str(Append(SubSeq(cleaned, 1, 137), Ellipsis))

formatCommentary(commentary) ==
  IF ~Truthy(commentary) THEN NoText
  ELSE LET cleaned == trimChars(CollapseWhitespace(commentary.chars)) IN
       IF cleaned = <<>> THEN NoText
       ELSE IF Len(cleaned) <= 140 THEN Str(cleaned)
       ELSE LET sentences == SelectSeq(SplitSentences(cleaned), NonEmpty) IN
            IF Len(sentences) > 0 /\ Len(sentences[Len(sentences)]) <= 140
            THEN Str(sentences[Len(sentences)])
            ELSE Str(Append(SubSeq(cleaned, 1, 137), Ellipsis))

\* ------------------------------------------------------------ environment
MainId == "r0"
SeedId == "h1"
ChatIds == <<"c1", "c2", "c3", "c4">>
AllIds == {MainId} \cup {ChatIds[i] : i \in 1..Len(ChatIds)}

\* new Date(): the wall clock in ms, with the page served at 0; a session is
\* short against the staleness limit
Now == 0

\* 1970-01-01T00:00:00Z on that clock: long before the page is served
Epoch == -2000000000

\* new Date(created_at): Invalid Date (NaN) for an absent field, the epoch for null
IsInvalidDate(c) == c = NoDate
DateOf(c) == IF c = NullDate THEN Epoch ELSE c

\* answers to the agent-state query: the agent's state, or a non-2xx / error
AgentStateOutcomes == {"idle", "slept", "fail"}

\* answers to a poll fetch: the response as it is now, or a non-2xx / error
PollOutcomes == {"ok", "fail"}

\* progress of a remote response: pending < processing < terminal
Rank(s) ==
  LET l == toLowerCase(s) IN
  IF l \in {"pending", ""} THEN 0 ELSE IF l = "processing" THEN 1 ELSE 2

VARIABLES
  mounted,                \* the page component is mounted
  remote,                 \* id -> the response as the remote service holds it
  response,               \* useState(normalizedInitial)
  isPolling,
  pollError,
  mainEff,                \* the main poll effect instance
  mainReqs,               \* poll fetches of the main poller in flight
  mainFails,              \* consecutive failed polls while the main poll is on
  chatMessages,
  isSendingChat,
  currentChatResponseId,
  isChatPolling,
  isChatHistoryLoaded,
  chatEff,                \* the chat poll effect instance
  chatReqs,               \* ticks of the chat poller in flight
  sendReq,                \* POST /chat in flight
  chatsSent,              \* chat submissions so far
  hist,                   \* the history load
  call,                   \* one call of a helper function: argument and result
  srv,                    \* one request as the server side handles it
  home                    \* the landing page: its state and its fetches in flight

vars == <<mounted, remote, response, isPolling, pollError, mainEff, mainReqs, mainFails,
          chatMessages, isSendingChat, currentChatResponseId, isChatPolling,
          isChatHistoryLoaded, chatEff, chatReqs, sendReq, chatsSent, hist,
          call, srv, home>>

pageVars == <<mounted, remote, response, isPolling, pollError, mainEff, mainReqs, mainFails,
              chatMessages, isSendingChat, currentChatResponseId, isChatPolling,
              isChatHistoryLoaded, chatEff, chatReqs, sendReq, chatsSent, hist>>

mainVars == <<response, isPolling, pollError, mainEff, mainReqs, mainFails>>
chatVars == <<chatMessages, isSendingChat, currentChatResponseId, isChatPolling,
              chatEff, chatReqs, sendReq, chatsSent>>
histVars == <<isChatHistoryLoaded, hist>>

\* the JSON body the remote service returns for a response
RawResponse(id) ==
  LET r == remote[id] IN
  [id |-> id, status |-> r.status, created_at |-> r.created_at, input |-> r.input,
   segments |-> IF isTerminal(r.status) THEN Absent ELSE Arr(<<"commentary">>),
   output_content |-> IF isTerminal(r.status) THEN Arr(<<"markdown">>) ELSE Absent]

\* response?.id || initialResponseId || null; the page is given an initial
\* response id when the server side created or found a response
derivedResponseId ==
  IF response # NullResp /\ response.id # "" THEN response.id
  ELSE IF remote[MainId].exists THEN MainId ELSE null

\* response?.agent_name || agentName || null: the server side gives the page
\* an agent name together with a response
derivedAgentName == IF remote[MainId].exists THEN "agent" ELSE null

NoEffect == [on |-> FALSE, gen |-> 0, interval |-> FALSE, id |-> null]

\* `cancelled` as the closure of effect generation g sees it
NeverCancelled(eff, g) == FALSE

Cancelled(eff, g) == ~(eff.on /\ eff.gen = g)

\* clearInterval(interval) called from the callback of generation g
KeepOwnInterval(eff, g) == eff

ClearOwnInterval(eff, g) ==
  IF eff.gen = g THEN [eff EXCEPT !.interval = FALSE] ELSE eff

\* a counter of consecutive failures, counted up to MaxFails
Bump(n) == IF n < MaxFails THEN n + 1 ELSE n

PollRequest(eff) == [gen |-> eff.gen, id |-> eff.id, stage |-> "sent", data |-> NullResp,
                     state |-> ""]

\* ------------------------------------------------------------------- Init
\* the server side rendered the page without a response (setupError)
NoResponse == "none"

InitialStatuses == {"pending", "completed", NoResponse}

\* the landing page is not the page that is open
NoHome == [open |-> FALSE]

\* useState(() => Boolean(derivedResponseId && !isTerminal(status || 'pending')))
InitiallyPollingAnyStatus(resp, responseId) == responseId # null

InitiallyPolling(resp, responseId) ==
  /\ responseId # null
  /\ ~isTerminal(IF resp # NullResp /\ resp.status # "" THEN resp.status ELSE "pending")

\* the state of the page after its first render, for an initial response
\* whose status is one of statuses
InitWith(statuses) ==
  /\ mounted = TRUE
  /\ \E s0 \in statuses :
       remote = [id \in AllIds |->
                   IF id = MainId /\ s0 # NoResponse
                   THEN [exists |-> TRUE, status |-> s0, created_at |-> 0, input |-> "prompt"]
                   ELSE [exists |-> FALSE, status |-> "pending", created_at |-> NoDate,
                         input |-> ""]]
  /\ response = IF remote[MainId].exists THEN normalizeResponse(RawResponse(MainId))
                ELSE NullResp
  /\ isPolling = InitiallyPolling(response, derivedResponseId)
  /\ pollError = null
  /\ mainEff = NoEffect
  /\ mainReqs = EmptyBag
  /\ mainFails = 0
  /\ chatMessages = <<>>
  /\ isSendingChat = FALSE
  /\ currentChatResponseId = null
  /\ isChatPolling = FALSE
  /\ isChatHistoryLoaded = FALSE
  /\ chatEff = NoEffect
  /\ chatReqs = EmptyBag
  /\ sendReq = [stage |-> "none", msg |-> "", body |-> NullResp]
  /\ chatsSent = 0
  /\ hist = [pc |-> "idle", list |-> <<>>, msgs |-> <<>>, state |-> ""]

\* no helper call and no server request is under way
NoCall == [fn |-> "none"]
NoRequest == [handler |-> "none"]

Init == InitWith(InitialStatuses) /\ call = NoCall /\ srv = NoRequest /\ home = NoHome

\* ------------------------------------------------------------ environment
\* the remote response makes progress
RemoteAdvance(id, s) ==
  /\ mounted
  /\ remote[id].exists
  /\ s \in (IF id = MainId THEN MainStatuses ELSE ChatStatuses)
  /\ Rank(s) > Rank(remote[id].status)
  /\ remote' = [remote EXCEPT ![id].status = s]
  /\ UNCHANGED <<home, call, srv, mounted, mainVars, chatVars, histVars>>

\* ------------------------------------------------------- main poll effect
\* useEffect(..., [derivedAgentName, derivedResponseId, isPolling]): cleanup of
\* the previous run, then the guard and the setInterval of the new run
MainEffectWanted == derivedAgentName # null /\ derivedResponseId # null /\ isPolling

MainEffectStale == mainEff.on # MainEffectWanted

MainEffectSync ==
  /\ mounted
  /\ MainEffectStale
  /\ mainEff' = IF MainEffectWanted
                THEN [on |-> TRUE, gen |-> mainEff.gen + 1, interval |-> TRUE,
                      id |-> derivedResponseId]
                ELSE [mainEff EXCEPT !.on = FALSE, !.interval = FALSE]
  /\ UNCHANGED <<home, call, srv, mounted, remote, response, isPolling, pollError, mainReqs, mainFails,
                 chatVars, histVars>>

\* the interval callback starts: fetch(/api/ra/responses/agent/id)
MainTick ==
  /\ mainEff.interval
  /\ BagCardinality(mainReqs) < MaxInFlight
  /\ mainReqs' = mainReqs (+) SetToBag({PollRequest(mainEff)})
  /\ UNCHANGED <<home, call, srv, mounted, remote, response, isPolling, pollError, mainEff, mainFails,
                 chatVars, histVars>>

\* the proxy answers a poll fetch
MainServe(req, outcome) ==
  /\ BagIn(req, mainReqs)
  /\ req.stage = "sent"
  /\ mainReqs' = (mainReqs (-) SetToBag({req})) (+)
       SetToBag({[req EXCEPT !.stage = outcome,
                             !.data = IF outcome = "ok" THEN RawResponse(req.id) ELSE NullResp]})
  /\ UNCHANGED <<home, call, srv, mounted, remote, response, isPolling, pollError, mainEff, mainFails,
                 chatVars, histVars>>

\* the catch block of the interval callback
MainPollFailedGivesUp(cancelled) ==
  /\ pollError' = IF cancelled THEN pollError ELSE "Temporary issue polling agent status"
  /\ mainFails' = IF cancelled \/ ~isPolling THEN mainFails ELSE Bump(mainFails)
  /\ isPolling' = (isPolling /\ cancelled)
  /\ mainEff' = IF cancelled THEN mainEff ELSE [mainEff EXCEPT !.interval = FALSE]
  /\ UNCHANGED response

MainPollFailedSilently(cancelled) ==
  /\ mainFails' = IF cancelled \/ ~isPolling THEN mainFails ELSE Bump(mainFails)
  /\ UNCHANGED <<pollError, response, isPolling, mainEff>>

MainPollFailed(cancelled) ==
  /\ pollError' = IF cancelled THEN pollError ELSE "Temporary issue polling agent status"
  /\ mainFails' = IF cancelled \/ ~isPolling THEN mainFails ELSE Bump(mainFails)
  /\ UNCHANGED <<response, isPolling, mainEff>>

\* the rest of the interval callback, after `await fetch`
MainReply(req) ==
  LET data == normalizeResponse(req.data)
      cancelled == Cancelled(mainEff, req.gen)
  IN
  /\ BagIn(req, mainReqs)
  /\ req.stage \in {"ok", "fail"}
  /\ mainReqs' = mainReqs (-) SetToBag({req})
  /\ IF req.stage = "fail"
     THEN MainPollFailed(cancelled)
     ELSE IF ~cancelled /\ data # NullResp
     THEN /\ response' = data
          /\ pollError' = null
          /\ mainFails' = 0
          /\ IF isTerminal(data.status)
             THEN /\ isPolling' = FALSE
                  /\ mainEff' = ClearOwnInterval(mainEff, req.gen)
             ELSE UNCHANGED <<isPolling, mainEff>>
     ELSE UNCHANGED <<response, pollError, mainFails, isPolling, mainEff>>
  /\ UNCHANGED <<home, call, srv, mounted, remote, chatVars, histVars>>

\* ------------------------------------------------------- chat poll effect
\* useEffect(..., [derivedAgentName, currentChatResponseId, isChatPolling])
ChatEffectWanted == currentChatResponseId \notin {null, undefined} /\ isChatPolling

ChatEffectStale ==
  \/ chatEff.on # ChatEffectWanted
  \/ chatEff.on /\ chatEff.id # currentChatResponseId

ChatEffectSync ==
  /\ mounted
  /\ ChatEffectStale
  /\ chatEff' = IF ChatEffectWanted
                THEN [on |-> TRUE, gen |-> chatEff.gen + 1, interval |-> TRUE,
                      id |-> currentChatResponseId]
                ELSE [chatEff EXCEPT !.on = FALSE, !.interval = FALSE]
  /\ UNCHANGED <<home, call, srv, mounted, remote, mainVars, chatMessages, isSendingChat,
                 currentChatResponseId, isChatPolling, chatReqs, sendReq, chatsSent, histVars>>

\* ------------------------------------------------------------ chat submit
ChatInputs == {"hi", "   "}
UserMsgIds == <<"t1", "t2", "t3", "t4">>
ErrorMsgIds == <<"e1", "e2", "e3", "e4">>

\* String.prototype.trim on the inputs of the model
trim(s) == IF s = "   " THEN "" ELSE s

Msg(id, type, content, msgStatus, agentStateField, resp) ==
  [id |-> id, type |-> type, content |-> content, status |-> msgStatus,
   agentState |-> agentStateField, response |-> resp]

\* const status = (response?.status || 'pending').toLowerCase()
statusOf(resp) ==
  toLowerCase(IF resp # NullResp /\ resp.status # "" THEN resp.status ELSE "pending")

status == statusOf(response)

\* the useMemo values of a render: the progress commentary and the output list
commentary(resp) ==
  IF isTerminal(statusOf(resp)) THEN NoText
  ELSE extractLatestCommentary(IF resp = NullResp THEN Absent ELSE resp.segments)

outputItemsAtAnyStatus(resp) ==
  IF resp # NullResp /\ resp.output_content.isArray THEN resp.output_content.items ELSE <<>>

outputItems(resp) ==
  IF ~isTerminal(statusOf(resp)) THEN <<>>
  ELSE IF resp # NullResp /\ resp.output_content.isArray THEN resp.output_content.items
  ELSE <<>>

\* what a render of the page shows for the response it holds
RenderView(resp) ==
  LET st == statusOf(resp)
      failed == st = "failed"
      cancelled == st = "cancelled"
  IN [progress |-> ~isTerminal(st),
      commentary |-> commentary(resp),
      outputPanel |-> isTerminal(st),
      outputItems |-> IF isTerminal(st) /\ ~failed /\ ~cancelled THEN outputItems(resp) ELSE <<>>,
      chatForm |-> isTerminal(st) /\ ~failed /\ ~cancelled]
isFailed == status = "failed"
isCancelled == status = "cancelled"

\* the chat section, and with it the form, is rendered
ChatFormRendered == isTerminal(status) /\ ~isFailed /\ ~isCancelled

\* handleChatSubmit up to `await fetch('/api/chat')`; the submit button is
\* disabled while sending or polling.  A submit is a discrete event: React
\* flushes the pending effects before it is handled.
handleChatSubmitAtAnyTime(chatInput, limit) ==
  /\ mounted
  /\ ~MainEffectStale /\ ~ChatEffectStale /\ hist.pc # "idle"
  /\ ChatFormRendered
  /\ trim(chatInput) # ""
  /\ chatsSent < limit
  /\ chatsSent' = chatsSent + 1
  /\ isSendingChat' = TRUE
  /\ chatMessages' = Append(chatMessages,
                            Msg(UserMsgIds[chatsSent + 1], "user", trim(chatInput), null, null,
                                NullResp))
  /\ sendReq' = [stage |-> "sent", msg |-> trim(chatInput), body |-> NullResp]
  /\ UNCHANGED <<home, call, srv, mounted, remote, mainVars, currentChatResponseId, isChatPolling, chatEff,
                 chatReqs, histVars>>

handleChatSubmitUpTo(chatInput, limit) ==
  /\ mounted
  /\ ~MainEffectStale /\ ~ChatEffectStale /\ hist.pc # "idle"
  /\ ChatFormRendered
  /\ ~(trim(chatInput) = "" \/ isSendingChat \/ isChatPolling)
  /\ chatsSent < limit
  /\ chatsSent' = chatsSent + 1
  /\ isSendingChat' = TRUE
  /\ chatMessages' = Append(chatMessages,
                            Msg(UserMsgIds[chatsSent + 1], "user", trim(chatInput), null, null,
                                NullResp))
  /\ sendReq' = [stage |-> "sent", msg |-> trim(chatInput), body |-> NullResp]
  /\ UNCHANGED <<home, call, srv, mounted, remote, mainVars, currentChatResponseId, isChatPolling, chatEff,
                 chatReqs, histVars>>

handleChatSubmit(chatInput) == handleChatSubmitUpTo(chatInput, MaxChats)

\* POST /api/chat reaches the remote service: a response is created, or the
\* call fails
\* (or a 200 whose JSON body carries no id: NoIdBody)
SendOutcomes == {"pending", "PENDING", "noId", "fail"}

NoIdBody == [id |-> undefined, status |-> "", created_at |-> NoDate, input |-> "",
             segments |-> Absent, output_content |-> Absent]

ChatSendServe(outcome) ==
  LET id == ChatIds[chatsSent] IN
  /\ sendReq.stage = "sent"
  /\ IF outcome = "noId"
     THEN /\ sendReq' = [sendReq EXCEPT !.stage = "ok", !.body = NoIdBody]
          /\ UNCHANGED remote
     ELSE IF outcome # "fail"
     THEN /\ remote' = [remote EXCEPT ![id] = [exists |-> TRUE, status |-> outcome,
                                                created_at |-> 0, input |-> sendReq.msg]]
          /\ sendReq' = [sendReq EXCEPT !.stage = "ok",
                           !.body = [id |-> id, status |-> outcome, created_at |-> 0,
                                     input |-> sendReq.msg, segments |-> Absent,
                                     output_content |-> Absent]]
     ELSE /\ sendReq' = [sendReq EXCEPT !.stage = "fail"]
          /\ UNCHANGED remote
  /\ UNCHANGED <<home, call, srv, mounted, mainVars, chatMessages, isSendingChat, currentChatResponseId,
                 isChatPolling, chatEff, chatReqs, chatsSent, histVars>>

\* the catch block of handleChatSubmit: the error message joins the timeline
SendFailedUnreported(msgs, n) == msgs

SendFailed(msgs, n) ==
  Append(msgs, Msg(ErrorMsgIds[n], "error", "Failed to send message. Please try again.",
                   null, null, NullResp))

\* handleChatSubmit after `await fetch('/api/chat')`
ChatSendReply ==
  LET chatResponse == sendReq.body IN
  /\ sendReq.stage \in {"ok", "fail"}
  /\ sendReq' = [stage |-> "none", msg |-> "", body |-> NullResp]
  /\ IF ~mounted
     THEN UNCHANGED <<chatMessages, currentChatResponseId, isChatPolling, isSendingChat>>
     ELSE /\ isSendingChat' = FALSE
          /\ IF sendReq.stage = "ok"
             THEN /\ chatMessages' = Append(chatMessages,
                        Msg(chatResponse.id, "agent", sendReq.msg, chatResponse.status, null,
                            chatResponse))
                  /\ currentChatResponseId' = chatResponse.id
                  /\ isChatPolling' = TRUE
             ELSE /\ chatMessages' = SendFailed(chatMessages, chatsSent)
                  /\ UNCHANGED <<currentChatResponseId, isChatPolling>>
  /\ UNCHANGED <<home, call, srv, mounted, remote, mainVars, chatEff, chatReqs, chatsSent, histVars>>

\* ------------------------------------------------------ chat poll callback
\* the interval callback starts: fetch(/api/ra/responses/agent/currentChatResponseId)
ChatTickSharesPollFlag ==
  /\ chatEff.interval
  /\ BagCardinality(chatReqs) < MaxInFlight
  /\ chatReqs' = chatReqs (+) SetToBag({PollRequest(chatEff)})
  /\ isPolling' = isChatPolling
  /\ UNCHANGED <<home, call, srv, mounted, remote, response, pollError, mainEff, mainReqs, mainFails,
                 chatMessages, isSendingChat, currentChatResponseId, isChatPolling, chatEff,
                 sendReq, chatsSent, histVars>>

ChatTick ==
  /\ chatEff.interval
  /\ BagCardinality(chatReqs) < MaxInFlight
  /\ chatReqs' = chatReqs (+) SetToBag({PollRequest(chatEff)})
  /\ UNCHANGED <<home, call, srv, mounted, remote, mainVars, chatMessages, isSendingChat,
                 currentChatResponseId, isChatPolling, chatEff, sendReq, chatsSent, histVars>>

\* the proxy answers a poll fetch
ChatServe(req, outcome) ==
  /\ BagIn(req, chatReqs)
  /\ req.stage = "sent"
  /\ chatReqs' = (chatReqs (-) SetToBag({req})) (+)
       SetToBag({[req EXCEPT !.stage = outcome,
                             !.data = IF outcome = "ok" THEN RawResponse(req.id) ELSE NullResp]})
  /\ UNCHANGED <<home, call, srv, mounted, remote, mainVars, chatMessages, isSendingChat,
                 currentChatResponseId, isChatPolling, chatEff, sendReq, chatsSent, histVars>>

\* setChatMessages(prev => prev.map(msg => msg.id === id ? {...msg, ...} : msg))
MarkMessage(msgs, id, data, newStatus, slept) ==
  [i \in 1..Len(msgs) |->
     IF msgs[i].id = id
     THEN [msgs[i] EXCEPT !.response = data, !.status = newStatus,
                          !.agentState = IF slept THEN "slept" ELSE @]
     ELSE msgs[i]]

\* data.status === 'pending' || data.status === 'processing'
AwaitsAgentState(data) == data.status = "pending" \/ data.status = "processing"

\* "Update the chat message with the response" and the terminal exit
ChatUpdate(req, data) ==
  /\ chatMessages' = MarkMessage(chatMessages, req.id, data, data.status, FALSE)
  /\ IF isTerminal(data.status)
     THEN /\ isChatPolling' = FALSE
          /\ currentChatResponseId' = null
          /\ chatEff' = ClearOwnInterval(chatEff, req.gen)
     ELSE UNCHANGED <<isChatPolling, currentChatResponseId, chatEff>>

\* the interval callback after `await fetch` of the response, up to the
\* `await fetch` of the agent state when there is one
ChatReply(req) ==
  LET data == normalizeResponse(req.data)
      cancelled == Cancelled(chatEff, req.gen)
  IN
  /\ BagIn(req, chatReqs)
  /\ req.stage \in {"ok", "fail"}
  /\ IF req.stage = "fail" \/ cancelled \/ data = NullResp
     THEN /\ chatReqs' = chatReqs (-) SetToBag({req})
          /\ UNCHANGED <<chatMessages, isChatPolling, currentChatResponseId, chatEff>>
     ELSE IF AwaitsAgentState(data)
     THEN /\ chatReqs' = (chatReqs (-) SetToBag({req})) (+)
                           SetToBag({[req EXCEPT !.stage = "stateSent", !.data = data]})
          /\ UNCHANGED <<chatMessages, isChatPolling, currentChatResponseId, chatEff>>
     ELSE /\ chatReqs' = chatReqs (-) SetToBag({req})
          /\ ChatUpdate(req, data)
  /\ UNCHANGED <<home, call, srv, mounted, remote, mainVars, isSendingChat, sendReq, chatsSent, histVars>>

\* the agent-state proxy answers the side query of a tick
ChatStateServe(req, outcome) ==
  /\ BagIn(req, chatReqs)
  /\ req.stage = "stateSent"
  /\ chatReqs' = (chatReqs (-) SetToBag({req})) (+)
                   SetToBag({[req EXCEPT !.stage = "stateDone", !.state = outcome]})
  /\ UNCHANGED <<home, call, srv, mounted, remote, mainVars, chatMessages, isSendingChat,
                 currentChatResponseId, isChatPolling, chatEff, sendReq, chatsSent, histVars>>

\* "If agent is sleeping, mark this message as timed out"
ChatBusyTimeoutKeepsPolling(req, data) ==
  /\ chatMessages' = MarkMessage(chatMessages, req.id, data, "busy_timeout", TRUE)
  /\ UNCHANGED <<isChatPolling, currentChatResponseId, chatEff>>

ChatBusyTimeout(req, data) ==
  /\ chatMessages' = MarkMessage(chatMessages, req.id, data, "busy_timeout", TRUE)
  /\ isChatPolling' = FALSE
  /\ currentChatResponseId' = null
  /\ chatEff' = ClearOwnInterval(chatEff, req.gen)

\* the interval callback after `await fetch` of the agent state
ChatStateReply(req) ==
  LET data == req.data IN
  /\ BagIn(req, chatReqs)
  /\ req.stage = "stateDone"
  /\ chatReqs' = chatReqs (-) SetToBag({req})
  /\ IF ~mounted
     THEN UNCHANGED <<chatMessages, isChatPolling, currentChatResponseId, chatEff>>
     ELSE IF req.state = "slept"
     THEN ChatBusyTimeout(req, data)
     ELSE ChatUpdate(req, data)
  /\ UNCHANGED <<home, call, srv, mounted, remote, mainVars, isSendingChat, sendReq, chatsSent, histVars>>

\* --------------------------------------------------- chat history effect
\* an earlier follow-up the agent's response list may hold besides the
\* responses of this page
Seed(seedStatus, date) ==
  [id |-> SeedId, status |-> seedStatus, created_at |-> date, input |-> "hi",
   segments |-> Absent, output_content |-> Absent]
Seeds == {Seed("pending", Now - StaleAfterMs - 1), Seed("pending", Now - StaleAfterMs),
          Seed("processing", Now - StaleAfterMs - 1), Seed("PENDING", Now - StaleAfterMs - 1),
          Seed("completed", Now - StaleAfterMs - 1), Seed("pending", NoDate),
          Seed("pending", NullDate)}

\* what the list holds besides the responses of this page: nothing or one
\* stale follow-up (FewSeeds), nothing or any one of Seeds (AllSeeds)
FewSeeds == {<<>>, <<Seed("pending", Now - StaleAfterMs - 1)>>}
AllSeeds == {<<>>} \cup {<<x>> : x \in Seeds}

\* input_content[0].content that is not a string: a number or an object (no
\* length, no includes), an array (has both); no first item at all
NumberContent == "<number>"
ArrayContent == "<array>"
MissingContent == ""

\* a response of the agent's list; x500 and x501 stand for texts of 500 and
\* 501 characters that hold neither keyword
Listed(id, st, date, input) ==
  [id |-> id, status |-> st, created_at |-> date, input |-> input,
   segments |-> Absent, output_content |-> Absent]

TimelineEntries ==
  {Listed("h1", "completed", Now - 3, "hi"),
   Listed("h2", "completed", Now - 2, "hi"),
   Listed("h3", "completed", Now - 1, "hi"),
   Listed("h1", "completed", Now - 1, "x500"),
   Listed("h2", "completed", Now - 3, "x501"),
   Listed("h3", "completed", Now - 2, "Clone **Step 1:"),
   Listed("h1", "completed", Now - 2, "Clone it"),
   Listed("h2", "completed", Now - 1, "**Step 1: go"),
   Listed("h3", "pending", Now - 2, "prompt"),
   Listed(MainId, "completed", Now - 2, "hi"),
   Listed("", "completed", Now - 1, "hi"),
   Listed("h3", "pending", Now - StaleAfterMs - 1, "hi"),
   Listed("h2", "completed", NoDate, "hi"),
   Listed("h1", "completed", Now - 2, "   "),
   Listed("h1", "completed", Now - 1, NumberContent),
   Listed("h2", "completed", Now - 2, ArrayContent),
   Listed("h3", "completed", Now - 3, MissingContent)}

MaxListed == 3

\* the lists the remote service may answer with: up to MaxListed entries, in
\* any order, no id twice
RECURSIVE ListsOf(_)
ListsOf(n) ==
  IF n = 0 THEN {<<>>}
  ELSE LET shorter == ListsOf(n - 1) IN
       shorter \cup {Append(l, e) : l \in {x \in shorter : Len(x) = n - 1}, e \in TimelineEntries}

DistinctIds(l) == \A i, j \in 1..Len(l) : (i # j /\ l[i].id # "") => l[i].id # l[j].id

TimelineLists == {l \in ListsOf(MaxListed) : DistinctIds(l)}

\* inputContent.length and inputContent.includes(sub) of the inputs of the model
InputLength(s) ==
  CASE s = "prompt" -> 2900
    [] s = "hi" -> 2
    [] s = "   " -> 3
    [] s = "x500" -> 500
    [] s = "x501" -> 501
    [] s = "Clone it" -> 8
    [] s = "**Step 1: go" -> 12
    [] s = "Clone **Step 1:" -> 15
    [] s = ArrayContent -> 1
    [] OTHER -> 0

InputIncludes(s, sub) ==
  \/ sub = "Clone" /\ s \in {"prompt", "Clone it", "Clone **Step 1:"}
  \/ sub = "**Step 1:" /\ s \in {"prompt", "**Step 1: go", "Clone **Step 1:"}

\* new Date(a.created_at || 0): a missing date sorts as the epoch
SortKey(r) == IF r.created_at \in {NoDate, NullDate} THEN Epoch ELSE r.created_at

\* Array.prototype.sort((a, b) => dateA - dateB): stable, ascending
RECURSIVE InsertSorted(_, _)
InsertSorted(sorted, r) ==
  IF sorted = <<>> THEN <<r>>
  ELSE IF SortKey(sorted[Len(sorted)]) <= SortKey(r) THEN Append(sorted, r)
  ELSE Append(InsertSorted(SubSeq(sorted, 1, Len(sorted) - 1), r), sorted[Len(sorted)])

Unsorted(list) == list

RECURSIVE SortByCreatedAt(_)
SortByCreatedAt(list) ==
  IF list = <<>> THEN <<>>
  ELSE InsertSorted(SortByCreatedAt(SubSeq(list, 1, Len(list) - 1)), list[Len(list)])

\* the filter callback of loadChatHistory
IsFollowUpBelow500(r) ==
  /\ r.id # ""
  /\ r.id # derivedResponseId
  /\ ~(InputLength(r.input) >= 500
       \/ (InputIncludes(r.input, "Clone") /\ InputIncludes(r.input, "**Step 1:")))

IsFollowUp(r) ==
  /\ r.id # ""
  /\ r.id # derivedResponseId
  /\ ~(InputLength(r.input) > 500
       \/ (InputIncludes(r.input, "Clone") /\ InputIncludes(r.input, "**Step 1:")))

FilterFollowUps(list) == SelectSeq(list, IsFollowUp)

\* inputContent.includes is not a function: the callback throws a TypeError
\* for a response it has not returned false for before
FilterThrows(r) ==
  /\ r.id # ""
  /\ r.id # derivedResponseId
  /\ r.input = NumberContent

\* userContent: the first item's content when typeof content === 'string'
userContentAsReceived(resp) == resp.input

userContent(resp) == IF resp.input \in {NumberContent, ArrayContent} THEN "" ELSE resp.input

\* responseAge > 3600000, with responseAge = new Date() - new Date(resp.created_at),
\* which is NaN when the date is missing
isStaleFromTheLimit(resp) ==
  ~IsInvalidDate(resp.created_at) /\ Now - DateOf(resp.created_at) >= StaleAfterMs

isStale(resp) ==
  ~IsInvalidDate(resp.created_at) /\ Now - DateOf(resp.created_at) > StaleAfterMs

\* (resp.status === 'pending' || resp.status === 'processing') && isStale
HistoryAsksAgentState(resp) ==
  (resp.status = "pending" \/ resp.status = "processing") /\ isStale(resp)

HistoryUserMessage(resp) ==
  Msg("user-" \o resp.id, "user", resp.input, null, null, NullResp)

HistoryAgentMessage(resp, finalStatus) ==
  Msg(resp.id, "agent", resp.input, finalStatus,
      IF finalStatus = "busy_timeout" THEN "slept" ELSE null, normalizeResponse(resp))

\* the for loop of loadChatHistory from the head of list, up to its end or to
\* the next `await fetch` of the agent state
RECURSIVE BuildMessages(_, _)
BuildMessages(list, msgs) ==
  IF list = <<>> THEN [list |-> <<>>, msgs |-> msgs, waiting |-> FALSE]
  ELSE LET resp == Head(list) IN
       IF resp.id = "" \/ trim(userContent(resp)) = "" THEN BuildMessages(Tail(list), msgs)
       ELSE IF HistoryAsksAgentState(resp)
       THEN [list |-> list, msgs |-> Append(msgs, HistoryUserMessage(resp)), waiting |-> TRUE]
       ELSE BuildMessages(Tail(list),
                          Append(Append(msgs, HistoryUserMessage(resp)),
                                 HistoryAgentMessage(resp, resp.status)))

IdleHistory == [pc |-> "idle", list |-> <<>>, msgs |-> <<>>, state |-> ""]

\* if (!derivedAgentName || !derivedResponseId || isChatHistoryLoaded) return
HistoryEffectWantedAgain == derivedResponseId # null

HistoryEffectWanted == derivedResponseId # null /\ ~isChatHistoryLoaded

\* useEffect(..., [derivedAgentName, derivedResponseId, isChatHistoryLoaded]):
\* the effect body runs after the first render and again after the render in
\* which isChatHistoryLoaded changed (hist.pc = "idle": a run is due); it
\* returns at its guard, or goes on with loadChatHistory() up to
\* `await fetch(.../responses)`
HistoryEffect ==
  /\ mounted
  /\ hist.pc = "idle"
  /\ hist' = IF HistoryEffectWanted THEN [IdleHistory EXCEPT !.pc = "listSent"]
             ELSE [IdleHistory EXCEPT !.pc = "done"]
  /\ UNCHANGED <<home, call, srv, mounted, remote, mainVars, chatVars, isChatHistoryLoaded>>

\* the responses of this page that the remote service lists, newest first
RECURSIVE ListedChats(_)
ListedChats(n) ==
  IF n = 0 THEN <<>>
  ELSE IF remote[ChatIds[n]].exists THEN <<RawResponse(ChatIds[n])>> \o ListedChats(n - 1)
  ELSE ListedChats(n - 1)

\* the list proxy answers: the agent's responses, or a non-2xx / error
HistoryListServe(ok, seeds) ==
  /\ hist.pc = "listSent"
  /\ hist' = IF ok
             THEN [hist EXCEPT !.pc = "listOk",
                               !.list = ListedChats(Len(ChatIds)) \o <<RawResponse(MainId)>> \o seeds]
             ELSE [hist EXCEPT !.pc = "listFail"]
  /\ UNCHANGED <<home, call, srv, mounted, remote, mainVars, chatVars, isChatHistoryLoaded>>

\* setChatMessages(messages); setIsChatHistoryLoaded(true)
HistoryFinish(built) ==
  IF built.waiting
  THEN /\ hist' = [pc |-> "stateSent", list |-> built.list, msgs |-> built.msgs, state |-> ""]
       /\ UNCHANGED <<chatMessages, isChatHistoryLoaded>>
  ELSE /\ hist' = IdleHistory
       /\ chatMessages' = built.msgs
       /\ isChatHistoryLoaded' = TRUE

\* if (!allResponsesRes.ok) { setIsChatHistoryLoaded(true); return; } and the
\* outer catch block
HistoryListFailedUnmarked ==
  /\ hist' = [IdleHistory EXCEPT !.pc = "done"]
  /\ UNCHANGED <<isChatHistoryLoaded, chatMessages>>

HistoryListFailed ==
  /\ hist' = IdleHistory
  /\ isChatHistoryLoaded' = TRUE
  /\ UNCHANGED chatMessages

\* loadChatHistory after `await fetch(.../responses)`
HistoryListReply ==
  /\ hist.pc \in {"listOk", "listFail"}
  /\ IF ~mounted
     THEN /\ hist' = [IdleHistory EXCEPT !.pc = "done"]
          /\ UNCHANGED <<chatMessages, isChatHistoryLoaded>>
     ELSE IF hist.pc = "listFail" \/ \E k \in 1..Len(hist.list) : FilterThrows(hist.list[k])
     THEN HistoryListFailed
     ELSE HistoryFinish(BuildMessages(SortByCreatedAt(FilterFollowUps(hist.list)), <<>>))
  /\ UNCHANGED <<home, call, srv, mounted, remote, mainVars, isSendingChat, currentChatResponseId,
                 isChatPolling, chatEff, chatReqs, sendReq, chatsSent>>

\* the agent-state proxy answers the query of the history load
HistoryStateServe(outcome) ==
  /\ hist.pc = "stateSent"
  /\ hist' = [hist EXCEPT !.pc = "stateDone", !.state = outcome]
  /\ UNCHANGED <<home, call, srv, mounted, remote, mainVars, chatVars, isChatHistoryLoaded>>

\* loadChatHistory after `await fetch(.../state)` for the response at the
\* head of the list
HistoryStateReply ==
  LET resp == Head(hist.list)
      finalStatus == IF hist.state = "slept" THEN "busy_timeout" ELSE resp.status
  IN
  /\ hist.pc = "stateDone"
  /\ IF ~mounted
     THEN /\ hist' = [IdleHistory EXCEPT !.pc = "done"]
          /\ UNCHANGED <<chatMessages, isChatHistoryLoaded>>
     ELSE HistoryFinish(BuildMessages(Tail(hist.list),
                                      Append(hist.msgs, HistoryAgentMessage(resp, finalStatus))))
  /\ UNCHANGED <<home, call, srv, mounted, remote, mainVars, isSendingChat, currentChatResponseId,
                 isChatPolling, chatEff, chatReqs, sendReq, chatsSent>>

\* the page is left: every effect's cleanup runs, and React drops the state
\* updates of an unmounted component
Unmount ==
  /\ mounted
  /\ mounted' = FALSE
  /\ mainEff' = [mainEff EXCEPT !.on = FALSE, !.interval = FALSE]
  /\ chatEff' = [chatEff EXCEPT !.on = FALSE, !.interval = FALSE]
  /\ UNCHANGED <<home, call, srv, remote, response, isPolling, pollError, mainReqs, mainFails,
                 chatMessages, isSendingChat, currentChatResponseId, isChatPolling,
                 chatReqs, sendReq, chatsSent, histVars>>

Next ==
  \/ \E id \in AllIds, s \in StatusValues : RemoteAdvance(id, s)
  \/ MainEffectSync
  \/ MainTick
  \/ \E req \in BagToSet(mainReqs), o \in PollOutcomes : MainServe(req, o)
  \/ \E req \in BagToSet(mainReqs) : MainReply(req)
  \/ \E chatInput \in ChatInputs : handleChatSubmit(chatInput)
  \/ \E o \in SendOutcomes : ChatSendServe(o)
  \/ ChatSendReply
  \/ ChatEffectSync
  \/ ChatTick
  \/ \E req \in BagToSet(chatReqs), o \in PollOutcomes : ChatServe(req, o)
  \/ \E req \in BagToSet(chatReqs) : ChatReply(req)
  \/ \E req \in BagToSet(chatReqs), o \in AgentStateOutcomes : ChatStateServe(req, o)
  \/ \E req \in BagToSet(chatReqs) : ChatStateReply(req)
  \/ HistoryEffect
  \/ \E seeds \in FewSeeds : HistoryListServe(TRUE, seeds)
  \/ HistoryListServe(FALSE, <<>>)
  \/ HistoryListReply
  \/ \E o \in AgentStateOutcomes : HistoryStateServe(o)
  \/ HistoryStateReply
  \/ Unmount

Spec == Init /\ [][Next]_vars

\* The page of an agent that was used before: its latest response is
\* complete when the page is served, and its list holds an earlier follow-up.
InitHistory == InitWith({"completed", NoResponse}) /\ call = NoCall /\ srv = NoRequest /\ home = NoHome

NextHistory ==
  \/ \E id \in AllIds, s \in StatusValues : RemoteAdvance(id, s)
  \/ \E chatInput \in ChatInputs : handleChatSubmit(chatInput)
  \/ \E o \in SendOutcomes : ChatSendServe(o)
  \/ ChatSendReply
  \/ ChatEffectSync
  \/ ChatTick
  \/ \E req \in BagToSet(chatReqs), o \in PollOutcomes : ChatServe(req, o)
  \/ \E req \in BagToSet(chatReqs) : ChatReply(req)
  \/ \E req \in BagToSet(chatReqs), o \in AgentStateOutcomes : ChatStateServe(req, o)
  \/ \E req \in BagToSet(chatReqs) : ChatStateReply(req)
  \/ HistoryEffect
  \/ \E seeds \in AllSeeds : HistoryListServe(TRUE, seeds)
  \/ HistoryListServe(FALSE, <<>>)
  \/ HistoryListReply
  \/ \E o \in AgentStateOutcomes : HistoryStateServe(o)
  \/ HistoryStateReply
  \/ Unmount

SpecHistory == InitHistory /\ [][NextHistory]_vars

\* The chat alone, on a page whose response is complete and whose agent has
\* no earlier follow-up: the user may send one message more than MaxChats.
InitChat == InitWith({"completed"}) /\ call = NoCall /\ srv = NoRequest /\ home = NoHome

NextChat ==
  \/ \E id \in AllIds, s \in {"processing", "completed"} : RemoteAdvance(id, s)
  \/ \E chatInput \in ChatInputs : handleChatSubmitUpTo(chatInput, MaxChats + 1)
  \/ \E o \in SendOutcomes \ {"PENDING"} : ChatSendServe(o)
  \/ ChatSendReply
  \/ ChatEffectSync
  \/ ChatTick
  \/ \E req \in BagToSet(chatReqs), o \in PollOutcomes : ChatServe(req, o)
  \/ \E req \in BagToSet(chatReqs) : ChatReply(req)
  \/ \E req \in BagToSet(chatReqs), o \in AgentStateOutcomes : ChatStateServe(req, o)
  \/ \E req \in BagToSet(chatReqs) : ChatStateReply(req)
  \/ HistoryEffect
  \/ HistoryListServe(TRUE, <<>>)
  \/ HistoryListServe(FALSE, <<>>)
  \/ HistoryListReply
  \/ Unmount

SpecChat == InitChat /\ [][NextChat]_vars

\* The history load alone, over the lists the remote service may answer with.
NextTimeline ==
  \/ HistoryEffect
  \/ \E l \in TimelineLists : HistoryListServe(TRUE, l)
  \/ HistoryListServe(FALSE, <<>>)
  \/ HistoryListReply
  \/ \E o \in AgentStateOutcomes : HistoryStateServe(o)
  \/ HistoryStateReply
  \/ Unmount

SpecTimeline == InitHistory /\ [][NextTimeline]_vars

\* The main poller alone, from every status the initial response may have.
MountStatuses == {"", "pending", "processing", "completed", "failed", "cancelled", NoResponse}

InitMain == InitWith(MountStatuses) /\ call = NoCall /\ srv = NoRequest /\ home = NoHome

NextMain ==
  \/ \E s \in MainStatuses : RemoteAdvance(MainId, s)
  \/ MainEffectSync
  \/ MainTick
  \/ \E req \in BagToSet(mainReqs), o \in PollOutcomes : MainServe(req, o)
  \/ \E req \in BagToSet(mainReqs) : MainReply(req)
  \/ Unmount

SpecMain == InitMain /\ [][NextMain]_vars

\* The main poller under fair scheduling: the effect is synchronised after a
\* render, the interval keeps firing, every request is answered and every
\* answer handled.
MainFairness ==
  /\ WF_vars(MainEffectSync)
  /\ WF_vars(MainTick)
  /\ WF_vars(\E req \in BagToSet(mainReqs), o \in PollOutcomes : MainServe(req, o))
  /\ WF_vars(\E req \in BagToSet(mainReqs) : MainReply(req))

SpecMainFair == SpecMain /\ MainFairness

\* ------------------------------------------------------- helper functions
\* The helpers of the page, each called once on an argument, over arguments
\* of every shape the remote JSON may have.
MaxSegments == 3

\* status values
StatusInputs ==
  {null, undefined, "", "completed", "COMPLETED", "Completed", "failed", "FAILED",
   "Failed", "cancelled", "CANCELLED", "Cancelled", "canceled", "CANCELED", "pending",
   "PENDING", "processing", "busy_timeout", "Busy_Timeout", " completed", "complete",
   "done"}

\* a segment is a JSON value: an object with a type, a text and a content,
\* any of them possibly missing, or not an object at all
Segment(type, text, content) ==
  [isObject |-> TRUE, type |-> type, text |-> text, content |-> content]
NotAnObject == [isObject |-> FALSE]

Chars(a, b, c) == Str(<<a, b, c>>)

SegmentInputs ==
  {Segment("commentary", Chars("o", "n", "e"), NoText),
   Segment("COMMENTARY", Chars(" ", "b", " "), Chars("n", "o", "t")),
   Segment("Commentary", NoText, Chars("t", "w", "o")),
   Segment("commentary", Str(<<>>), Chars("s", "i", "x")),
   Segment("commentary", Chars(" ", "\n", "\t"), Chars("n", "o", "t")),
   Segment("commentary", NoText, Chars(" ", " ", " ")),
   Segment("commentary", NoText, NoText),
   Segment("commentary", NotStr("number"), Chars("n", "o", "t")),
   Segment("tool_call", Chars("r", "u", "n"), NoText),
   Segment("", Chars("a", "n", "y"), NoText),
   NotAnObject}

RECURSIVE SegmentLists(_)
SegmentLists(n) ==
  IF n = 0 THEN {<<>>}
  ELSE LET shorter == SegmentLists(n - 1) IN
       shorter \cup {Append(l, e) : l \in shorter, e \in SegmentInputs}

SegmentsInputs == {Absent, NotArr("text")} \cup {Arr(l) : l \in SegmentLists(MaxSegments)}

\* responses as received, and values that are not a response
SegmentsFields ==
  {Absent, NotArr("text"), Arr(<<>>),
   Arr(<<Segment("commentary", Chars("o", "n", "e"), NoText)>>)}
OutputFields == {Absent, NotArr("text"), Arr(<<>>), Arr(<<"markdown">>)}

ResponseInputs ==
  {[id |-> MainId, status |-> st, created_at |-> Now, input |-> "prompt",
    segments |-> sg, output_content |-> oc] :
      st \in {"processing", "completed"}, sg \in SegmentsFields, oc \in OutputFields}
  \cup {[id |-> MainId, agent_name |-> "ut-repo", segments |-> sg, output_content |-> oc] :
          sg \in SegmentsFields, oc \in OutputFields}

\* responses the page may hold when it renders: any status, with or without
\* segments and output
HeldStatuses ==
  {"", "pending", "PENDING", "processing", "completed", "COMPLETED", "Completed", "failed",
   "FAILED", "cancelled", "Cancelled", "canceled", "busy_timeout", "done"}

HeldResponses ==
  {NullResp}
  \cup {normalizeResponse([id |-> MainId, status |-> st, created_at |-> Now, input |-> "prompt",
                           segments |-> sg, output_content |-> oc]) :
          st \in HeldStatuses, sg \in SegmentsFields, oc \in OutputFields}

NotResponses == {NullResp, Primitive("string"), Primitive("number"), Primitive("boolean")}

\* commentary texts: blanks, a first part, a sentence end, a gap, a second
\* part, a closing mark, blanks
Rep(c, n) == [i \in 1..n |-> c]

FirstLengths == {0, 1, 100, 141}
SecondLengths == {0, 1, 137, 139, 140, 141, 200}
Blanks == {<<>>, <<" ", "\n">>}
Marks == {<<>>, <<".">>, <<"!">>, <<"?">>}
Gaps == {<<>>, <<" ">>, <<" ", "\t">>}
Closings == {<<>>, <<".">>}

CommentaryInputs ==
  {NoText}
  \cup {Str(lead \o Rep("a", n) \o mark \o gap \o Rep("b", m) \o close \o trail) :
          lead \in Blanks, n \in FirstLengths, mark \in Marks, gap \in Gaps,
          m \in SecondLengths, close \in Closings, trail \in Blanks}

Called(fn, arg) == [fn |-> fn, arg |-> arg]
Returned(c, out) == [fn |-> c.fn, arg |-> c.arg, out |-> out]
IsPending(fn) == call.fn = fn /\ "out" \notin DOMAIN call
HasReturned(fn) == call.fn = fn /\ "out" \in DOMAIN call

InitHelpers ==
  /\ InitWith({NoResponse})
  /\ srv = NoRequest
  /\ home = NoHome
  /\ \/ \E st \in StatusInputs : call = Called("isTerminal", st)
     \/ \E resp \in ResponseInputs : call = Called("normalizeResponse", resp)
     \/ \E resp \in NotResponses : call = Called("normalizeResponse", resp)
     \/ \E segments \in SegmentsInputs : call = Called("extractLatestCommentary", segments)
     \/ \E text \in CommentaryInputs : call = Called("formatCommentary", text)
     \/ \E resp \in HeldResponses : call = Called("render", resp)

CallIsTerminal ==
  /\ IsPending("isTerminal")
  /\ call' = Returned(call, isTerminal(call.arg))
  /\ UNCHANGED <<pageVars, srv, home>>

CallNormalizeResponse ==
  /\ IsPending("normalizeResponse")
  /\ call' = Returned(call, normalizeResponse(call.arg))
  /\ UNCHANGED <<pageVars, srv, home>>

CallExtractLatestCommentary ==
  /\ IsPending("extractLatestCommentary")
  /\ call' = Returned(call, extractLatestCommentary(call.arg))
  /\ UNCHANGED <<pageVars, srv, home>>

CallFormatCommentary ==
  /\ IsPending("formatCommentary")
  /\ call' = Returned(call, formatCommentary(call.arg))
  /\ UNCHANGED <<pageVars, srv, home>>

CallRender ==
  /\ IsPending("render")
  /\ call' = Returned(call, RenderView(call.arg))
  /\ UNCHANGED <<pageVars, srv, home>>

NextHelpers ==
  \/ CallRender
  \/ CallIsTerminal
  \/ CallNormalizeResponse
  \/ CallExtractLatestCommentary
  \/ CallFormatCommentary

SpecHelpers == InitHelpers /\ [][NextHelpers]_vars

\* -------------------------------------------------------------- server side
\* One request as the server handles it: getServerSideProps of the page, or
\* one of the API routes.  srv.calls is the log of the fetches issued so far.
MaxAgents == 3          \* agents the tag query of recent-tests lists

ProxyHandlers == {"chat", "agentState", "listResponses"}
Handlers == ProxyHandlers \cup {"singleResponse", "getServerSideProps", "recentTests"}

\* `${owner}/${name}`, the agent the tag lookup finds, the name computed for
\* a new agent (`ut-${cleanName}-${shortId}`), the agent a route is asked about
RepoTag == "owner/name"
NewAgentName == "ut-name-1234"
FoundNames == {"ut-name-1234", "ut-older"}
AgentParam == "agent"

\* one fetch: what is asked, of which agent, and the tags sent with it
Call(op, agent) == [op |-> op, agent |-> agent, tags |-> <<>>]
TaggedCall(op, agent, tags) == [op |-> op, agent |-> agent, tags |-> tags]

\* the fetch a proxy route issues
UpstreamCall(handler) ==
  CASE handler = "chat" -> Call("POST response", AgentParam)
    [] handler = "agentState" -> Call("GET agent", AgentParam)
    [] handler = "listResponses" -> Call("GET responses", AgentParam)

\* process.env.RA_APPS_UNITEST_ADMIN_TOKEN and process.env.RA_HOST_URL are set
Configured == srv.token /\ srv.host

NoProps == [isNull |-> TRUE]

Request(handler, token, host, wellFormed) ==
  [handler |-> handler, token |-> token, host |-> host, wellFormed |-> wellFormed,
   pc |-> "start", calls |-> <<>>, agents |-> <<>>, heard |-> <<>>, tests |-> <<>>,
   refused |-> "none", failed |-> FALSE,
   lookup |-> "unasked", found |-> "", out |-> "none", body |-> "", props |-> NoProps]

\* what the remote API answers: an HTTP status, or the fetch throws
NotOkStatuses == {"404", "503"}
UpstreamReplies == {"200", "throw"} \cup NotOkStatuses

\* a reply has come: the first non-2xx status and any failure are remembered
Heard(s, o) ==
  [s EXCEPT !.refused = IF @ = "none" /\ o \in NotOkStatuses THEN o ELSE @,
            !.failed = @ \/ o \notin {"200", "public", "found", "nameless", "none",
                                      "some", "empty"}]

Fetch(s, c, pc) == [s EXCEPT !.calls = Append(@, c), !.pc = pc]
Answer(s, out, body) == [s EXCEPT !.pc = "done", !.out = out, !.body = body]

\* chat.js, state.js, responses.js (list): method and parameter checks, the
\* configuration check, then the one fetch
ProxyHandle ==
  /\ srv.handler \in ProxyHandlers
  /\ srv.pc = "start"
  /\ srv' = IF ~srv.wellFormed THEN Answer(srv, "400", "Missing parameter")
            ELSE IF ~Configured THEN Answer(srv, "500", "Server configuration error")
            ELSE Fetch(srv, UpstreamCall(srv.handler), "upstream")
  /\ UNCHANGED <<pageVars, call, home>>

ProxyReplied(s, o) ==
  CASE o = "200" -> Answer(s, "200", "")
    [] o \in NotOkStatuses -> Answer(s, o, "Failed upstream")
    [] o = "throw" -> Answer(s, "500", "Internal server error")

ProxyReply(o) ==
  /\ srv.handler \in ProxyHandlers
  /\ srv.pc = "upstream"
  /\ srv' = ProxyReplied(Heard(srv, o), o)
  /\ UNCHANGED <<pageVars, call, home>>

\* the single-response route: method and parameter checks, ensureEnv, the fetch
ResponseHandle ==
  /\ srv.handler = "singleResponse"
  /\ srv.pc = "start"
  /\ srv' = IF ~srv.wellFormed THEN Answer(srv, "400", "Missing agent or response identifier")
            ELSE IF ~Configured THEN Answer(srv, "500", "Missing environment variables")
            ELSE Fetch(srv, Call("GET response", AgentParam), "upstream")
  /\ UNCHANGED <<pageVars, call, home>>

ResponseReply(o) ==
  /\ srv.handler = "singleResponse"
  /\ srv.pc = "upstream"
  /\ srv' = CASE o = "200" -> Answer(Heard(srv, o), "200", "")
              [] o \in NotOkStatuses -> Answer(Heard(srv, o), o, "")
              [] o = "throw" -> Answer(Heard(srv, o), "500",
                                       "Failed to fetch response status from RA")
  /\ UNCHANGED <<pageVars, call, home>>

\* recent-tests: method check, ensureEnv, the tag query, then one fetch per agent
RecentHandle ==
  /\ srv.handler = "recentTests"
  /\ srv.pc = "start"
  /\ srv' = IF ~srv.wellFormed THEN Answer(srv, "405", "Method not allowed")
            ELSE IF ~Configured THEN Answer(srv, "500", "Missing environment variables")
            ELSE Fetch(srv, TaggedCall("GET agents", "", <<"unitest">>), "agents")
  /\ UNCHANGED <<pageVars, call, home>>

\* an agent of the tag query's items: its name, and whether its metadata
\* holds a repository with owner and name
Agent(i, repo) == [name |-> "ut-" \o ToString(i), index |-> i, repo |-> repo]

\* a response of an agent's list, which the remote service gives newest first
AgentResponse(agent, pos, st, updated) ==
  [id |-> agent.name \o "-r" \o ToString(pos), status |-> st, updated_at |-> updated]

\* slice(0, 20)
RecentLimit == 20

\* the items of the tag query: up to MaxAgents agents, with and without
\* repository metadata, or one more agent than the list may report
AgentLists ==
  {<<>>}
  \cup {[i \in 1..n |-> Agent(i, i \in withRepo)] :
          n \in 1..MaxAgents, withRepo \in SUBSET (1..MaxAgents)}
  \cup {[i \in 1..(RecentLimit + 1) |-> Agent(i, TRUE)]}

\* what the remote service may answer for the responses of an agent: a list,
\* a non-2xx status, or the fetch throws; the agents of the long list each
\* have one completed response, updated at a time of their own
ResponseLists(agent) ==
  {<<>>,
   <<AgentResponse(agent, 1, "pending", 5)>>,
   <<AgentResponse(agent, 1, "processing", 9), AgentResponse(agent, 2, "completed", 4)>>,
   <<AgentResponse(agent, 1, "COMPLETED", 7), AgentResponse(agent, 2, "completed", 3)>>,
   <<AgentResponse(agent, 1, "failed", 6), AgentResponse(agent, 2, "pending", 2)>>,
   <<AgentResponse(agent, 1, "completed", NoDate)>>}

ResponsesReplies(agent, agents) ==
  IF Len(agents) > MaxAgents
  THEN {[outcome |-> "200",
         list |-> <<AgentResponse(agent, 1, "completed", 10 + agent.index)>>]}
  ELSE {[outcome |-> "200", list |-> l] : l \in ResponseLists(agent)}
         \cup {[outcome |-> o, list |-> <<>>] : o \in UpstreamReplies \ {"200"}}

\* completed.length > 0 ? completed[0] : responses[0]
latestOfAll(responses) == responses[1]

latest(responses) ==
  LET IsCompleted(r) == toLowerCase(r.status) = "completed"
      completed == SelectSeq(responses, IsCompleted)
  IN IF completed # <<>> THEN completed[1] ELSE responses[1]

Test(agent, r) ==
  [agentName |-> agent.name, responseId |-> r.id, status |-> r.status,
   updatedAt |-> r.updated_at]

\* recentTests.sort((a, b) => new Date(b.updatedAt) - new Date(a.updatedAt)):
\* stable, newest first; with a missing updatedAt the comparator yields NaN
\* and the order is whatever the engine makes of it
RECURSIVE InsertNewestFirst(_, _)
InsertNewestFirst(sorted, t) ==
  IF sorted = <<>> THEN <<t>>
  ELSE IF sorted[Len(sorted)].updatedAt >= t.updatedAt THEN Append(sorted, t)
  ELSE Append(InsertNewestFirst(SubSeq(sorted, 1, Len(sorted) - 1), t), sorted[Len(sorted)])

RECURSIVE SortNewestFirst(_)
SortNewestFirst(tests) ==
  IF tests = <<>> THEN <<>>
  ELSE InsertNewestFirst(SortNewestFirst(SubSeq(tests, 1, Len(tests) - 1)), tests[Len(tests)])

Reorderings(tests) ==
  {[i \in 1..Len(tests) |-> tests[f[i]]] :
     f \in {g \in [1..Len(tests) -> 1..Len(tests)] :
              \A i, j \in 1..Len(tests) : i # j => g[i] # g[j]}}

SortOutcomes(tests) ==
  IF \A i \in 1..Len(tests) : tests[i].updatedAt # NoDate
  THEN {SortNewestFirst(tests)}
  ELSE Reorderings(tests)

slice(tests) == SubSeq(tests, 1, IF Len(tests) < RecentLimit THEN Len(tests) ELSE RecentLimit)

RecentAgentsReply(o, agents) ==
  /\ srv.handler = "recentTests"
  /\ srv.pc = "agents"
  /\ srv' = IF o # "200" THEN Answer(Heard(srv, o), "500", "Failed to fetch recent tests")
            ELSE IF agents = <<>> THEN Answer(Heard(srv, o), "200", "")
            ELSE [Fetch(Heard(srv, o), Call("GET responses", agents[1].name), "responses")
                    EXCEPT !.agents = agents]
  /\ UNCHANGED <<pageVars, call, home>>

\* one turn of the loop over the agents; after the last, sort and slice
RecentTurn(agent, reply) ==
  LET heard == [Heard(srv, reply.outcome) EXCEPT !.heard = Append(@, reply)]
      tests == IF reply.outcome = "200" /\ reply.list # <<>> /\ agent.repo
               THEN Append(srv.tests, Test(agent, latest(reply.list)))
               ELSE srv.tests
  IN IF Len(heard.heard) = Len(srv.agents)
     THEN \E sorted \in SortOutcomes(tests) :
             srv' = [Answer(heard, "200", "") EXCEPT !.tests = slice(sorted)]
     ELSE srv' = [Fetch(heard, Call("GET responses", srv.agents[Len(heard.heard) + 1].name),
                        "responses")
                    EXCEPT !.tests = tests]

RecentResponsesReply ==
  /\ srv.handler = "recentTests"
  /\ srv.pc = "responses"
  /\ \E reply \in ResponsesReplies(srv.agents[Len(srv.heard) + 1], srv.agents) :
        RecentTurn(srv.agents[Len(srv.heard) + 1], reply)
  /\ UNCHANGED <<pageVars, call, home>>

\* getServerSideProps
Props(agentName, resp) ==
  [agentName |-> agentName, response |-> resp, responseId |-> resp.id, setupError |-> null]

SetupErrorProps ==
  [agentName |-> null, response |-> NullResp, responseId |-> null,
   setupError |-> "Required RA credentials are missing"]

Redirect(s, destination) == Answer(s, "redirect", destination)
Render(s, props) == [Answer(s, "props", "") EXCEPT !.props = props]

\* the response the remote API answers a create-response call or a list with
RemoteResponse(st) ==
  [id |-> MainId, status |-> st, created_at |-> Now, input |-> "prompt",
   segments |-> Absent, output_content |-> Absent]
CreatedStatuses == {"", "pending", "processing"}
LatestStatuses == {"pending", "completed"}

SsrStart ==
  /\ srv.handler = "getServerSideProps"
  /\ srv.pc = "start"
  /\ srv' = IF ~srv.wellFormed THEN Redirect(srv, "/")
            ELSE Fetch(srv, Call("GET github repo", ""), "github")
  /\ UNCHANGED <<pageVars, call, home>>

SsrCreateAgentUntagged(s) ==
  Fetch(s, TaggedCall("POST agent", NewAgentName, <<"unitest">>), "createAgent")

SsrCreateAgent(s) ==
  Fetch(s, TaggedCall("POST agent", NewAgentName, <<"unitest", RepoTag>>), "createAgent")

SsrGithubReply(o) ==
  /\ srv.handler = "getServerSideProps"
  /\ srv.pc = "github"
  /\ srv' = IF o # "public" THEN Redirect(Heard(srv, o), "/?error=repo_inaccessible")
            ELSE IF ~Configured THEN Render(Heard(srv, o), SetupErrorProps)
            ELSE Fetch(Heard(srv, o), TaggedCall("GET agents", "", <<RepoTag>>), "lookup")
  /\ UNCHANGED <<pageVars, call, home>>

SsrLookupReply(o, name) ==
  /\ srv.handler = "getServerSideProps"
  /\ srv.pc = "lookup"
  /\ LET s == [Heard(srv, o) EXCEPT !.lookup = o] IN
     srv' = IF o = "found"
            THEN Fetch([s EXCEPT !.found = name], Call("GET latest response", name), "latest")
            ELSE SsrCreateAgent(s)
  /\ UNCHANGED <<pageVars, call, home>>

SsrLatestReply(o, st) ==
  /\ srv.handler = "getServerSideProps"
  /\ srv.pc = "latest"
  /\ LET s == Heard(srv, o) IN
     srv' = CASE o = "some" -> Render(s, Props(srv.found, RemoteResponse(st)))
              [] o \in {"empty"} \cup NotOkStatuses ->
                   Fetch(s, Call("POST response", srv.found), "reuseCreate")
              [] o = "throw" -> SsrCreateAgent(s)
  /\ UNCHANGED <<pageVars, call, home>>

SsrReuseCreateReply(o, st) ==
  /\ srv.handler = "getServerSideProps"
  /\ srv.pc = "reuseCreate"
  /\ LET s == Heard(srv, o) IN
     srv' = IF o = "200" THEN Render(s, Props(srv.found, RemoteResponse(st)))
            ELSE SsrCreateAgent(s)
  /\ UNCHANGED <<pageVars, call, home>>

SsrCreateAgentReply(o) ==
  /\ srv.handler = "getServerSideProps"
  /\ srv.pc = "createAgent"
  /\ LET s == Heard(srv, o) IN
     srv' = IF o = "200" THEN Fetch(s, Call("POST response", NewAgentName), "newCreate")
            ELSE Redirect(s, "/?error=setup_failed")
  /\ UNCHANGED <<pageVars, call, home>>

SsrNewCreateReply(o, st) ==
  /\ srv.handler = "getServerSideProps"
  /\ srv.pc = "newCreate"
  /\ LET s == Heard(srv, o) IN
     srv' = IF o = "200" THEN Render(s, Props(NewAgentName, RemoteResponse(st)))
            ELSE Redirect(s, "/?error=setup_failed")
  /\ UNCHANGED <<pageVars, call, home>>

GithubOutcomes == {"public", "private", "throw"} \cup NotOkStatuses
LookupOutcomes == {"found", "nameless", "none", "throw"} \cup NotOkStatuses
LatestOutcomes == {"some", "empty", "throw"} \cup NotOkStatuses

InitServer ==
  /\ InitWith({NoResponse})
  /\ call = NoCall
  /\ home = NoHome
  /\ \E handler \in Handlers, token \in BOOLEAN, host \in BOOLEAN, wellFormed \in BOOLEAN :
       srv = Request(handler, token, host, wellFormed)

NextServer ==
  \/ ProxyHandle
  \/ \E o \in UpstreamReplies : ProxyReply(o)
  \/ ResponseHandle
  \/ \E o \in UpstreamReplies : ResponseReply(o)
  \/ RecentHandle
  \/ \E o \in UpstreamReplies, agents \in AgentLists : RecentAgentsReply(o, agents)
  \/ RecentResponsesReply
  \/ SsrStart
  \/ \E o \in GithubOutcomes : SsrGithubReply(o)
  \/ \E o \in LookupOutcomes, name \in FoundNames : SsrLookupReply(o, name)
  \/ \E o \in LatestOutcomes, st \in LatestStatuses : SsrLatestReply(o, st)
  \/ \E o \in UpstreamReplies, st \in CreatedStatuses : SsrReuseCreateReply(o, st)
  \/ \E o \in UpstreamReplies : SsrCreateAgentReply(o)
  \/ \E o \in UpstreamReplies, st \in CreatedStatuses : SsrNewCreateReply(o, st)

SpecServer == InitServer /\ [][NextServer]_vars

\* ============================================================ landing page
\* Home: the recent tests it shows and the agents the user has hidden.
\* the agents the recent-tests endpoint may list
ListedAgents == {"ut-1", "ut-2"}

\* clicks on "Remove from list" in one visit
MaxHides == 2

\* one run of fetchRecentTests: the hidden list its closure holds, and its reply
TestsFetch(n, hidden) == [n |-> n, hidden |-> hidden, stage |-> "sent", tests |-> {}]

\* the effect on [hiddenAgents] has run n times; its next run is run n + 1
FetchesStarted == 2 + home.hides

\* after the first commit and the render that setHiddenAgents(hidden) causes:
\* the fetch effect ran once with the initial [] and once with the stored list
InitHome ==
  /\ InitWith({NoResponse})
  /\ call = NoCall
  /\ srv = NoRequest
  /\ \E stored \in SUBSET ListedAgents :
       home = [open |-> TRUE,
               stored |-> stored,
               hiddenAgents |-> stored,
               recentTests |-> {},
               loadingTests |-> TRUE,
               hides |-> 0,
               fetches |-> {TestsFetch(1, {}), TestsFetch(2, stored)}]

\* GET /api/recent-tests answers one of the fetches
RecentTestsServe(f, ok, tests) ==
  /\ home.open
  /\ f \in home.fetches
  /\ f.stage = "sent"
  /\ home' = [home EXCEPT !.fetches =
                (@ \ {f}) \cup {[f EXCEPT !.stage = IF ok THEN "ok" ELSE "failed",
                                          !.tests = IF ok THEN tests ELSE {}]}]
  /\ UNCHANGED <<pageVars, call, srv>>

\* .filter(test => !hiddenAgents.includes(test.agentName)): hiddenAgents is the
\* list of the render whose effect started this fetch
filtered(f) == f.tests \ f.hidden

\* the rest of fetchRecentTests, once its fetch has answered
fetchRecentTests(f) ==
  /\ home.open
  /\ f \in home.fetches
  /\ f.stage # "sent"
  /\ home' = [home EXCEPT !.fetches = @ \ {f},
                          !.recentTests = IF f.stage = "ok" THEN filtered(f) ELSE @,
                          !.loadingTests = FALSE]
  /\ UNCHANGED <<pageVars, call, srv>>

\* what the page lists: {!loadingTests && recentTests.length > 0 && ...}
ShownTests == IF home.loadingTests THEN {} ELSE home.recentTests

\* the click on the remove button of a listed test, and the run of the fetch
\* effect that the changed list causes
hideAgent(agentName) ==
  /\ home.open
  /\ agentName \in ShownTests
  /\ home.hides < MaxHides
  /\ LET updated == home.hiddenAgents \cup {agentName}
     IN  home' = [home EXCEPT !.hiddenAgents = updated,
                              !.stored = updated,
                              !.hides = @ + 1,
                              !.fetches = @ \cup {TestsFetch(FetchesStarted + 1, updated)}]
  /\ UNCHANGED <<pageVars, call, srv>>

NextHome ==
  \/ \E f \in home.fetches, ok \in BOOLEAN, tests \in SUBSET ListedAgents :
       RecentTestsServe(f, ok, tests)
  \/ \E f \in home.fetches : fetchRecentTests(f)
  \/ \E agentName \in ListedAgents : hideAgent(agentName)

SpecHome == InitHome /\ [][NextHome]_vars

\* ====================================================== properties checked
\* steps of the pollers, told by what they do to the requests in flight
MainDelivered(r) ==
  /\ BagIn(r, mainReqs)
  /\ r.stage \in {"ok", "fail"}
  /\ mainReqs' = mainReqs (-) SetToBag({r})

MainIssued ==
  \E q \in BagToSet(mainReqs') : q.stage = "sent" /\ CopiesIn(q, mainReqs') > CopiesIn(q, mainReqs)

ChatIssued(q) ==
  /\ BagIn(q, chatReqs')
  /\ q.stage = "sent"
  /\ CopiesIn(q, chatReqs') > CopiesIn(q, chatReqs)

\* the reply r of a chat tick is consumed: the tick ends, or goes on to ask
\* for the agent state
ChatAsks(r) ==
  \E q \in BagToSet(chatReqs') :
     /\ q.stage = "stateSent" /\ q.id = r.id /\ q.gen = r.gen
     /\ chatReqs' = (chatReqs (-) SetToBag({r})) (+) SetToBag({q})

ChatDelivered(r) ==
  /\ BagIn(r, chatReqs)
  /\ r.stage \in {"ok", "fail", "stateDone"}
  /\ (chatReqs' = chatReqs (-) SetToBag({r}) \/ ChatAsks(r))

\* the effect run that issued r has been cleaned up
TornDown(eff, r) == ~eff.on \/ eff.gen # r.gen

TerminalWord(s) == toLowerCase(s) \in {"completed", "failed", "cancelled"}

\* the age of a response as the clock and the Date parse give it
AgeOf(r) == Now - (IF r.created_at = NullDate THEN Epoch ELSE r.created_at)

\* C1: a successful main poll tick replaces the local response by the
\* normalized fetched one; when its status is terminal isPolling becomes false
\* and the interval is cleared, otherwise the polling flag and the interval are
\* left as they are; and once isPolling is false it stays false and no further
\* poll request is issued.
C1_MainSuccessExit ==
  [][ /\ \A r \in BagToSet(mainReqs) :
           (MainDelivered(r) /\ r.stage = "ok" /\ ~TornDown(mainEff, r)) =>
              /\ response'.id = r.data.id
              /\ response'.status = r.data.status
              /\ response'.segments.isArray /\ response'.output_content.isArray
              /\ IF TerminalWord(r.data.status)
                 THEN ~isPolling' /\ ~mainEff'.interval
                 ELSE isPolling' = isPolling /\ mainEff'.interval = mainEff.interval
      /\ ~isPolling => (~isPolling' /\ ~MainIssued) ]_vars

C1_Witness ==
  /\ mainEff.gen = 1
  /\ ~mainEff.interval
  /\ ~isPolling
  /\ TerminalWord(response.status)
  /\ response.output_content = Arr(<<"markdown">>) /\ response.segments = Arr(<<>>)

\* C2: a failed tick of either poller (non-2xx or a throw) leaves the tracked
\* response data, the tracked id, the polling flag and the interval as they
\* were, however many failures came before.
C2_FailureKeepsPolling ==
  [][ /\ \A r \in BagToSet(mainReqs) :
           (MainDelivered(r) /\ r.stage = "fail") =>
              /\ response' = response
              /\ isPolling' = isPolling
              /\ mainEff' = mainEff
      /\ \A r \in BagToSet(chatReqs) :
           (ChatDelivered(r) /\ r.stage = "fail") =>
              /\ chatMessages' = chatMessages
              /\ currentChatResponseId' = currentChatResponseId
              /\ isChatPolling' = isChatPolling
              /\ chatEff' = chatEff ]_vars

C2_Witness ==
  /\ mainFails = 2
  /\ isPolling /\ mainEff.on /\ mainEff.interval
  /\ response.status = "pending"
  /\ \E r \in BagToSet(mainReqs) : r.stage = "fail" /\ r.gen = mainEff.gen

\* C3: during a run of consecutive failed main poll ticks the advisory
\* pollError is set and polling stays on; a following successful tick that
\* returns completed clears pollError and stops polling.
C3_AdvisoryLifecycle ==
  [][ /\ mainFails' >= 1 => (pollError' # null /\ isPolling')
      /\ \A r \in BagToSet(mainReqs) :
           (MainDelivered(r) /\ ~TornDown(mainEff, r)) =>
              IF r.stage = "fail"
              THEN pollError' # null /\ isPolling' = isPolling
              ELSE /\ pollError' = null
                   /\ r.data.status = "completed" =>
                        (~isPolling' /\ response'.status = "completed" /\ mainFails' = 0) ]_vars

C3_Witness ==
  /\ mainFails = MaxFails
  /\ pollError # null
  /\ isPolling /\ mainEff.on
  /\ \E r \in BagToSet(mainReqs) :
        r.stage = "ok" /\ r.data.status = "completed" /\ r.gen = mainEff.gen

\* C4: once the main poll effect is torn down no tick fires, and a fetch that
\* was in flight at teardown changes none of response, pollError and isPolling,
\* whether it succeeds or fails.
C4_MainTeardownSafety ==
  [][ /\ MainIssued => (mainEff.on /\ mainEff.interval)
      /\ \A r \in BagToSet(mainReqs) :
           (MainDelivered(r) /\ TornDown(mainEff, r)) =>
              UNCHANGED <<response, pollError, isPolling>> ]_vars

C4_Witness ==
  /\ ~mainEff.on
  /\ mainEff.gen = 1
  /\ pollError = null
  /\ response.status = "completed"
  /\ \E r \in BagToSet(mainReqs) : r.stage = "fail" /\ r.gen = mainEff.gen

\* C5: after the chat poll effect is torn down, every reply of a tick that was
\* in flight, the reply to its agent-state query included, changes none of
\* chatMessages, isChatPolling and currentChatResponseId.
C5_ChatTeardownNoOp ==
  [][ \A r \in BagToSet(chatReqs) :
        (ChatDelivered(r) /\ TornDown(chatEff, r)) =>
           UNCHANGED <<chatMessages, isChatPolling, currentChatResponseId>> ]_vars

\* C6: the chat poller asks for the agent state, and marks the tracked
\* response busy_timeout, only when the response is older than 3600000 ms.
C6_ChatStalenessGate ==
  [][ \A r \in BagToSet(chatReqs) :
        /\ (BagIn(r, chatReqs) /\ r.stage = "ok" /\ ChatAsks(r)) => AgeOf(r.data) > StaleAfterMs
        /\ (ChatDelivered(r) /\ r.stage = "stateDone") =>
              \A i \in 1..Len(chatMessages') :
                 (chatMessages'[i].id = r.id /\ chatMessages'[i].status = "busy_timeout"
                  /\ chatMessages[i].status # "busy_timeout") => AgeOf(r.data) > StaleAfterMs ]_vars

\* C7: the agent message the history builder makes for a response has status
\* busy_timeout iff the response is pending or processing, older than
\* 3600000 ms, and the agent-state query answered slept; otherwise (the query
\* failed, the agent is not slept, created_at is absent) it keeps the remote
\* status.
StalePending(r) ==
  /\ r.status \in {"pending", "processing"}
  /\ r.created_at # NoDate
  /\ AgeOf(r) > StaleAfterMs

HistoryStep ==
  /\ mounted
  /\ hist.pc \in {"listOk", "stateDone"}
  /\ hist'.pc \in {"stateSent", "idle"}

HistoryBuilt == IF hist'.pc = "stateSent" THEN hist'.msgs ELSE chatMessages'

HistoryAnswered(i) == hist.pc = "stateDone" /\ i = Len(hist.msgs) + 1

C7_HistoryStalenessGate ==
  [][ HistoryStep =>
        \A i \in (Len(hist.msgs) + 1)..Len(HistoryBuilt) :
           LET m == HistoryBuilt[i] IN
           m.type = "agent" =>
             /\ HistoryAnswered(i) <=> StalePending(m.response)
             /\ (m.status = "busy_timeout") <=> (HistoryAnswered(i) /\ hist.state = "slept")
             /\ m.status # "busy_timeout" => m.status = m.response.status ]_vars

C7_Witness ==
  /\ isChatHistoryLoaded
  /\ \E i \in 1..Len(chatMessages) :
        /\ chatMessages[i].id = SeedId
        /\ chatMessages[i].status = "busy_timeout"
        /\ chatMessages[i].response.status = "processing"

\* C8: an agent message of the timeline whose status is completed, failed or
\* cancelled keeps a terminal status when the reply of a chat poll tick, or of
\* its agent-state query, is handled, also when that tick began before the
\* terminal status was recorded.
C8_TerminalChatStatusKept ==
  [][ \A i \in 1..Len(chatMessages) :
        (/\ \E r \in BagToSet(chatReqs) : ChatDelivered(r)
         /\ chatMessages[i].type = "agent"
         /\ TerminalWord(chatMessages[i].status)
         /\ i <= Len(chatMessages')
         /\ chatMessages'[i].id = chatMessages[i].id) => TerminalWord(chatMessages'[i].status) ]_vars

\* C9: when the agent-state query of a chat tick that saw pending or
\* processing answers slept, the tracked message is marked busy_timeout with
\* agentState slept, isChatPolling becomes false, currentChatResponseId becomes
\* null, the interval polling that response is cleared, and no poll request is
\* issued for a response marked busy_timeout.
C9_BusyTimeoutExit ==
  [][ /\ \A r \in BagToSet(chatReqs) :
           (mounted /\ ChatDelivered(r) /\ r.stage = "stateDone" /\ r.state = "slept"
            /\ r.data.status \in {"pending", "processing"}) =>
              /\ Len(chatMessages') = Len(chatMessages)
              /\ \A i \in 1..Len(chatMessages') :
                    IF chatMessages[i].id = r.id
                    THEN /\ chatMessages'[i].status = "busy_timeout"
                         /\ chatMessages'[i].agentState = "slept"
                    ELSE chatMessages'[i] = chatMessages[i]
              /\ ~isChatPolling'
              /\ currentChatResponseId' = null
              /\ chatEff'.interval => chatEff'.id # r.id
              /\ remote' = remote
      /\ \A q \in BagToSet(chatReqs') :
           ChatIssued(q) =>
              \A i \in 1..Len(chatMessages) :
                 chatMessages[i].id = q.id => chatMessages[i].status # "busy_timeout" ]_vars

C9_Witness ==
  /\ mounted
  /\ ~isChatPolling
  /\ currentChatResponseId = null
  /\ ~chatEff.interval
  /\ \E i \in 1..Len(chatMessages) :
        /\ chatMessages[i].id = ChatIds[1]
        /\ chatMessages[i].status = "busy_timeout"
        /\ chatMessages[i].agentState = "slept"
        /\ ~TerminalWord(remote[ChatIds[1]].status)

\* C10: the chat poller classifies a status whatever its letter case: a live
\* tick that fetched a status spelling pending or processing goes on to the
\* agent-state query.
C10_CaseInsensitiveStatus ==
  [][ \A r \in BagToSet(chatReqs) :
        (ChatDelivered(r) /\ r.stage = "ok" /\ ~TornDown(chatEff, r)
         /\ toLowerCase(r.data.status) \in {"pending", "processing"}) => ChatAsks(r) ]_vars

\* C11 as stated: every user message of the timeline is directly followed by
\* the agent message of its response, except the last message while its send
\* is in flight.
SendInFlight(i) == i = Len(chatMessages) /\ isSendingChat

FromHistory(m) == \A k \in 1..Len(UserMsgIds) : m.id # UserMsgIds[k]

AgentFollows(i) ==
  /\ i < Len(chatMessages)
  /\ chatMessages[i + 1].type = "agent"
  /\ FromHistory(chatMessages[i]) => chatMessages[i].id = "user-" \o chatMessages[i + 1].id

C11_EveryUserHasAgent ==
  \A i \in 1..Len(chatMessages) :
     chatMessages[i].type = "user" => (AgentFollows(i) \/ SendInFlight(i))

\* C11 amended: every user message is directly followed by the agent message
\* of its response or by the error message of its failed send, except the
\* last message while its send is in flight.
ErrorFollows(i) ==
  /\ i < Len(chatMessages)
  /\ chatMessages[i + 1].type = "error"
  /\ ~FromHistory(chatMessages[i])

C11_UserHasAgentOrError ==
  \A i \in 1..Len(chatMessages) :
     chatMessages[i].type = "user" => (AgentFollows(i) \/ ErrorFollows(i) \/ SendInFlight(i))

C11_Witness ==
  /\ Len(chatMessages) = 4
  /\ chatMessages[1].id = "user-" \o SeedId /\ chatMessages[2].id = SeedId
  /\ chatMessages[3].type = "user" /\ chatMessages[4].type = "error"
  /\ ~isSendingChat

\* C12: the history filter drops the page's own response, a response whose
\* input is longer than 500 characters and one whose input holds both Clone
\* and **Step 1:, and keeps every other listed response that has an id.
ExcludedInputs == {"prompt", "x501", "Clone **Step 1:"}

\* inputs that pass the filter and are then skipped by the builder
NoUserTurn == {"   ", MissingContent, ArrayContent}

PassesFilter(r) == r.id # "" /\ r.id # MainId /\ r.input \notin ExcludedInputs

\* the ids of the responses the load goes on with after the list reply: those
\* it has made messages of and those it has yet to handle
KeptIds ==
  {HistoryBuilt[i].id : i \in {k \in 1..Len(HistoryBuilt) : HistoryBuilt[k].type = "agent"}}
    \cup {hist'.list[k].id : k \in 1..Len(hist'.list)}

C12_HistoryFilter ==
  [][ (HistoryStep /\ hist.pc = "listOk") =>
        /\ \A k \in 1..Len(hist.list) :
              (PassesFilter(hist.list[k]) /\ hist.list[k].input \notin NoUserTurn) =>
                 hist.list[k].id \in KeptIds
        /\ \A id \in KeptIds :
              \E k \in 1..Len(hist.list) : hist.list[k].id = id /\ PassesFilter(hist.list[k]) ]_vars

C12_Witness ==
  /\ isChatHistoryLoaded
  /\ Len(chatMessages) = 4
  /\ chatMessages[2].response.input = "**Step 1: go"
  /\ chatMessages[4].response.input = "x500"

\* C13: whatever the order of the list, the timeline the history load commits
\* is a run of pairs, a user message directly before the agent message of the
\* same response, in ascending order of the responses' created_at (a response
\* without one counts as oldest).
CreatedKey(r) == IF r.created_at \in {NoDate, NullDate} THEN Epoch ELSE r.created_at

HistoryCommit == HistoryStep /\ hist'.pc = "idle"

C13_HistoryOrder ==
  [][ HistoryCommit =>
        /\ Len(chatMessages') % 2 = 0
        /\ \A i \in 1..Len(chatMessages') :
              IF i % 2 = 1
              THEN /\ chatMessages'[i].type = "user"
                   /\ chatMessages'[i].id = "user-" \o chatMessages'[i + 1].id
              ELSE /\ chatMessages'[i].type = "agent"
                   /\ i + 2 <= Len(chatMessages') =>
                        CreatedKey(chatMessages'[i].response)
                          <= CreatedKey(chatMessages'[i + 2].response) ]_vars

C13_Witness ==
  /\ isChatHistoryLoaded
  /\ Len(chatMessages) = 6
  /\ chatMessages[2].id = "h3" /\ chatMessages[2].status = "busy_timeout"
  /\ chatMessages[4].id = "h1" /\ chatMessages[6].id = "h2"

\* C14: when the list fetch of the history load fails (non-2xx or a throw),
\* the load is marked complete, the timeline is left as it is, and no list
\* fetch is issued once the load is marked complete.
ListFetchIssued == hist'.pc = "listSent" /\ hist.pc # "listSent"

HistoryStarted == hist.pc # "idle" \/ isChatHistoryLoaded

C15_HistoryLoadOnce ==
  [][ /\ ListFetchIssued => (mounted /\ derivedResponseId # null /\ ~HistoryStarted)
      /\ HistoryStarted => (hist'.pc # "idle" \/ isChatHistoryLoaded')
      /\ isChatHistoryLoaded => isChatHistoryLoaded' ]_vars

C15_Witness ==
  /\ isChatHistoryLoaded
  /\ hist.pc = "done"
  /\ \E i \in 1..Len(chatMessages) :
        chatMessages[i].id = ChatIds[1] /\ chatMessages[i].status = "completed"

NoIdNoHistory ==
  /\ derivedResponseId = null
  /\ hist.pc = "done"
  /\ ~isChatHistoryLoaded

\* C16: isTerminal is true exactly for the spellings, in any letter case,
\* of completed, failed and cancelled, and false for null, undefined, the
\* empty string and every other string.
TerminalSpellings ==
  {"completed", "COMPLETED", "Completed", "failed", "FAILED", "Failed",
   "cancelled", "CANCELLED", "Cancelled"}

C16_IsTerminal ==
  HasReturned("isTerminal") => (call.out <=> call.arg \in TerminalSpellings)

C16_Witness ==
  /\ HasReturned("isTerminal")
  /\ call.arg = "CANCELLED"
  /\ call.out

\* C17: normalizeResponse gives null for null and for a value that is not
\* an object; for an object the result has the same fields, segments and
\* output_content are sequences (the input's when it had one, else empty),
\* and every other field keeps its value.
SequenceOf(field) == IF field.isArray THEN field ELSE Arr(<<>>)

C17_NormalizeResponse ==
  HasReturned("normalizeResponse") =>
    IF call.arg \in NotResponses THEN call.out = NullResp
    ELSE /\ DOMAIN call.out = DOMAIN call.arg
         /\ call.out.segments = SequenceOf(call.arg.segments)
         /\ call.out.output_content = SequenceOf(call.arg.output_content)
         /\ \A f \in DOMAIN call.arg \ {"segments", "output_content"} :
               call.out[f] = call.arg[f]

C17_Witness ==
  /\ HasReturned("normalizeResponse")
  /\ "agent_name" \in DOMAIN call.arg
  /\ call.arg.segments = NotArr("text")
  /\ call.arg.output_content = Arr(<<"markdown">>)
  /\ call.out.segments = Arr(<<>>)

\* C18: extractLatestCommentary returns the text, or the content when there
\* is no text, of the last entry that is a commentary (in any letter case)
\* with a text that is not blank; none when segments is not a sequence or
\* has no such entry.
CommentarySpellings == {"commentary", "COMMENTARY", "Commentary"}

TextOf(entry) ==
  IF entry.text = NoText \/ entry.text = Str(<<>>) THEN entry.content ELSE entry.text

IsCommentary(entry) ==
  /\ entry.isObject
  /\ entry.type \in CommentarySpellings
  /\ IsString(TextOf(entry))
  /\ \E i \in 1..Len(TextOf(entry).chars) : ~IsSpace(TextOf(entry).chars[i])

CleanedOf(chars) == trimChars(CollapseWhitespace(chars))

\* what follows the last sentence end that has a space after it
LastSentence(cleaned) ==
  LET cuts == {i \in 1..(Len(cleaned) - 1) :
                 cleaned[i] \in SentenceEnds /\ cleaned[i + 1] = " "}
  IN IF cuts = {} THEN cleaned
     ELSE SubSeq(cleaned, (CHOOSE i \in cuts : \A j \in cuts : j <= i) + 2, Len(cleaned))

C19_FormatCommentary ==
  (HasReturned("formatCommentary") /\ call.arg # NoText) =>
    LET cleaned == CleanedOf(call.arg.chars) IN
    IF cleaned = <<>> THEN call.out = NoText
    ELSE IF Len(cleaned) <= 140 THEN call.out = Str(cleaned)
    ELSE IF Len(LastSentence(cleaned)) <= 140 THEN call.out = Str(LastSentence(cleaned))
    ELSE /\ Len(call.out.chars) = 138
         /\ SubSeq(call.out.chars, 1, 137) = SubSeq(cleaned, 1, 137)
         /\ call.out.chars[138] = Ellipsis

C19_Witness ==
  /\ HasReturned("formatCommentary")
  /\ call.arg = Str(Rep("a", 141) \o <<"?">> \o <<" ", "\t">> \o Rep("b", 139) \o <<".">>)
  /\ call.out = Str(Rep("b", 139) \o <<".">>)

\* C20: whenever the API base URL or the admin token is missing, the
\* server side issues no network request, and a well-formed request is
\* answered with the configuration error.
ConfigurationErrors ==
  {"Server configuration error", "Missing environment variables",
   "Required RA credentials are missing"}

C20_ConfigErrorBeforeNetwork ==
  (srv.handler # "none" /\ ~Configured) =>
    /\ srv.calls = <<>>
    /\ (srv.pc = "done" /\ srv.wellFormed) =>
          \/ srv.out = "500" /\ srv.body \in ConfigurationErrors
          \/ srv.out = "props" /\ srv.props.setupError \in ConfigurationErrors

\* C21: a proxy route that got a non-2xx reply from the remote API answers
\* its caller with the status code of that reply.
ProxyRoutes == ProxyHandlers \cup {"singleResponse", "recentTests"}

C21_UpstreamStatusPassThrough ==
  (srv.handler \in ProxyRoutes /\ srv.pc = "done" /\ srv.refused # "none") =>
    srv.out = srv.refused

\* C22: one page request issues at most one create-response call; none
\* follows a create-response call that failed.
CallsOf(op) == {i \in 1..Len(srv.calls) : srv.calls[i].op = op}

C22_NoSecondCreateResponse ==
  srv.handler = "getServerSideProps" => Cardinality(CallsOf("POST response")) <= 1

\* C23: when the tag lookup returned an agent with a name, the request
\* issues no create-agent call and the page gets that agent's name.
C23_FoundAgentIsUsed ==
  (srv.handler = "getServerSideProps" /\ srv.found # "") =>
    /\ CallsOf("POST agent") = {}
    /\ srv.out = "props" => srv.props.agentName = srv.found

\* C24: when the tag lookup returns no agent and every call succeeds, the
\* request issues one create-agent call tagged unitest and <owner>/<name>,
\* then one create-response call to that agent, and renders the page with
\* that agent, that response and its id and no setup error, so that the
\* page polls that response.
PagePolls(props) ==
  /\ props.agentName # null
  /\ InitiallyPolling(normalizeResponse(props.response), props.responseId)

C24_AgentCreationFlow ==
  (/\ srv.handler = "getServerSideProps"
   /\ srv.pc = "done"
   /\ srv.lookup = "none"
   /\ ~srv.failed) =>
    /\ srv.calls = <<Call("GET github repo", ""),
                     TaggedCall("GET agents", "", <<RepoTag>>),
                     TaggedCall("POST agent", NewAgentName, <<"unitest", RepoTag>>),
                     Call("POST response", NewAgentName)>>
    /\ srv.out = "props"
    /\ srv.props.agentName = NewAgentName
    /\ srv.props.response.id = MainId
    /\ srv.props.responseId = MainId
    /\ srv.props.setupError = null
    /\ PagePolls(srv.props)

C24_Witness ==
  /\ srv.handler = "getServerSideProps"
  /\ srv.pc = "done"
  /\ srv.lookup = "none"
  /\ ~srv.failed
  /\ srv.out = "props"
  /\ srv.props.response.status = "pending"
  /\ Len(srv.calls) = 4

\* C25: at mount the main poll is on iff an agent name and a response id
\* are known and the initial status is not terminal (no status counts as
\* pending); when it is off at mount the poll effect never starts and no
\* poll request is ever issued.
MainPollNeverRan ==
  /\ ~isPolling
  /\ ~mainEff.on /\ ~mainEff.interval /\ mainEff.gen = 0
  /\ mainReqs = EmptyBag

C25_PollStartCondition ==
  /\ isPolling <=> /\ derivedAgentName # null
                   /\ derivedResponseId # null
                   /\ response.status \in {"", "pending", "processing"}
  /\ ~isPolling => MainPollNeverRan
  /\ [][MainPollNeverRan => MainPollNeverRan']_vars

C25_Witness ==
  /\ response # NullResp
  /\ response.status = ""
  /\ isPolling
  /\ mainEff.on
  /\ mainReqs # EmptyBag

\* C26: the two pollers write disjoint state: no step of the main poller
\* (a tick issuing a request, a reply being handled) changes chatMessages,
\* isChatPolling or currentChatResponseId, and no step of the chat poller
\* changes response, pollError or isPolling.
MainPollerStep == mainReqs' # mainReqs

ChatPollerStep == chatReqs' # chatReqs

C26_PollersWriteDisjointState ==
  [][/\ MainPollerStep => UNCHANGED <<chatMessages, isChatPolling, currentChatResponseId>>
     /\ ChatPollerStep => UNCHANGED <<response, pollError, isPolling>>]_vars

\* both pollers have a reply to handle, and each has already written its own state
C26_Witness ==
  /\ \E r \in BagToSet(mainReqs) : r.stage \in {"ok", "fail"}
  /\ \E r \in BagToSet(chatReqs) : r.stage \in {"ok", "fail"}
  /\ Len(chatMessages) > 0
  /\ response # NullResp

\* C27: a render exposes output items only when the main status is terminal
\* (none for any other status) and progress commentary only when it is not
\* terminal; the chat form is rendered iff the main status is completed.
MainStatusOf(resp) == IF resp = NullResp \/ resp.status = "" THEN "pending" ELSE resp.status

C27_ResultGating ==
  HasReturned("render") =>
    LET st == MainStatusOf(call.arg)
        view == call.out
    IN /\ ~TerminalWord(st) => (view.outputItems = <<>> /\ outputItems(call.arg) = <<>>)
       /\ TerminalWord(st) => (view.commentary = NoText /\ ~view.progress)
       /\ view.chatForm <=> toLowerCase(st) = "completed"

\* a processing response that already carries output, rendered
C27_Witness ==
  /\ HasReturned("render")
  /\ call.arg # NullResp
  /\ call.arg.status = "processing"
  /\ call.arg.output_content.items # <<>>
  /\ call.out.commentary # NoText
  /\ call.out.outputItems = <<>>

\* C28: once the held main response has a terminal status, no later step
\* gives it a non-terminal status or replaces it, the reply of an earlier
\* tick still in flight included.
C28_TerminalIsAbsorbing ==
  [][(response # NullResp /\ isTerminal(response.status)) =>
       (response' = response /\ isTerminal(response'.status))]_vars

\* C29: if the page stays mounted, the remote response is eventually
\* terminal for good and poll fetches eventually stop failing, then under
\* fair scheduling the main poll ends with isPolling false and the held
\* response terminal.
PollFetchesSucceed == \A r \in BagToSet(mainReqs) : r.stage # "fail"

C29_PollingLiveness ==
  ([]mounted /\ <>[]isTerminal(remote[MainId].status) /\ <>[]PollFetchesSucceed)
    => <>[](~isPolling /\ response # NullResp /\ isTerminal(response.status))

\* C30: a failed chat poll tick (non-2xx or a network error), handled while
\* its effect is live, records a user-visible advisory in the page state, as
\* a failed main poll tick does: pollError is set or a chat message changes.
C30_ChatFailureAdvisory ==
  [][\A r \in BagToSet(chatReqs) :
        (ChatDelivered(r) /\ r.stage = "fail" /\ ~TornDown(chatEff, r)) =>
           (pollError' # null \/ chatMessages' # chatMessages)]_vars

\* C31: when the reply of POST /chat is handled on the mounted page: after
\* a failure exactly one error message is appended to the timeline, no agent
\* message, isChatPolling and currentChatResponseId stay as they were and
\* isSendingChat returns to false; after a success exactly one agent
\* placeholder with the id of the reply is appended and that id is polled.
SendReplyHandled(stage) ==
  /\ mounted
  /\ sendReq.stage = stage
  /\ sendReq'.stage = "none"

AppendedOne(type) ==
  /\ Len(chatMessages') = Len(chatMessages) + 1
  /\ SubSeq(chatMessages', 1, Len(chatMessages)) = chatMessages
  /\ chatMessages'[Len(chatMessages')].type = type

C31_ChatSendOutcome ==
  [][/\ SendReplyHandled("fail") =>
          /\ AppendedOne("error")
          /\ UNCHANGED <<isChatPolling, currentChatResponseId>>
          /\ isSendingChat /\ ~isSendingChat'
     /\ SendReplyHandled("ok") =>
          /\ AppendedOne("agent")
          /\ chatMessages'[Len(chatMessages')].id = sendReq.body.id
          /\ currentChatResponseId' = sendReq.body.id
          /\ isChatPolling'
          /\ ~isSendingChat']_vars

\* a failed send was reported and the page is ready for the next message
C31_Witness ==
  /\ mounted
  /\ sendReq.stage = "none"
  /\ chatsSent = 1
  /\ Len(chatMessages) >= 2
  /\ chatMessages[Len(chatMessages)].type = "error"
  /\ chatMessages[Len(chatMessages) - 1].type = "user"
  /\ ~isSendingChat /\ ~isChatPolling /\ currentChatResponseId = null

\* C32: when the filter has returned, of a listed response that passes it
\* and whose first input content is a non-blank string, the history builder makes exactly two
\* messages, the user message directly before the agent message that carries
\* the normalized response; of a response whose first input item is missing,
\* not a string or blank it makes none.
HasUserTurn(r) == r.input \notin (NoUserTurn \cup {NumberContent})

StillListed(r) == \E k \in 1..Len(hist'.list) : hist'.list[k].id = r.id

MessagesWithId(id) == {i \in 1..Len(HistoryBuilt) : HistoryBuilt[i].id = id}

EmittedPair(r) ==
  \E i \in 1..(Len(HistoryBuilt) - 1) :
     /\ HistoryBuilt[i].type = "user"
     /\ HistoryBuilt[i].id = "user-" \o r.id
     /\ HistoryBuilt[i].content = r.input
     /\ HistoryBuilt[i + 1].type = "agent"
     /\ HistoryBuilt[i + 1].id = r.id
     /\ HistoryBuilt[i + 1].response = normalizeResponse(r)
     /\ MessagesWithId(r.id) = {i + 1}
     /\ MessagesWithId("user-" \o r.id) = {i}

\* the filter has returned its list: its callback threw for no response
FilterReturned == \A k \in 1..Len(hist.list) : ~FilterThrows(hist.list[k])

RecentAnswered ==
  /\ srv.handler = "recentTests"
  /\ srv.pc = "done"
  /\ srv.out = "200"

HasReport(k) ==
  /\ srv.agents[k].repo
  /\ srv.heard[k].outcome = "200"
  /\ srv.heard[k].list # <<>>

EntriesOf(k) == {i \in 1..Len(srv.tests) : srv.tests[i].agentName = srv.agents[k].name}

Dated(t) == t.updatedAt # NoDate

NewestFirst ==
  \A i, j \in 1..Len(srv.tests) :
     (i < j /\ Dated(srv.tests[i]) /\ Dated(srv.tests[j])) =>
        srv.tests[i].updatedAt >= srv.tests[j].updatedAt

FirstOf(responses) == responses[1]

FirstCompletedOf(responses) ==
  LET done == {i \in 1..Len(responses) : toLowerCase(responses[i].status) = "completed"}
  IN IF done = {} THEN responses[1]
     ELSE responses[CHOOSE i \in done : \A j \in done : i <= j]

\* one entry per agent that has something to report, none for the others,
\* unless the list is full
OneEntryPerReport ==
  /\ Len(srv.tests) <= RecentLimit
  /\ \A k \in 1..Len(srv.agents) :
        /\ Cardinality(EntriesOf(k)) <= 1
        /\ ~HasReport(k) => EntriesOf(k) = {}
        /\ (HasReport(k) /\ EntriesOf(k) = {}) => Len(srv.tests) = RecentLimit
  /\ \A i \in 1..Len(srv.tests) : \E k \in 1..Len(srv.agents) : i \in EntriesOf(k)

C33_RecentTestsLatest ==
  RecentAnswered =>
    /\ OneEntryPerReport
    /\ \A k \in 1..Len(srv.agents) : \A i \in EntriesOf(k) :
          srv.tests[i].responseId = FirstOf(srv.heard[k].list).id
    /\ NewestFirst

C33_RecentTestsLatestCompleted ==
  RecentAnswered =>
    /\ OneEntryPerReport
    /\ \A k \in 1..Len(srv.agents) : \A i \in EntriesOf(k) :
          /\ srv.tests[i].responseId = FirstCompletedOf(srv.heard[k].list).id
          /\ srv.tests[i].status = FirstCompletedOf(srv.heard[k].list).status
    /\ (\A i \in 1..Len(srv.tests) : Dated(srv.tests[i])) => NewestFirst

\* an agent whose newest response is processing is reported with its
\* completed one, after a newer entry, and an agent whose fetch failed is left out
C33_Witness ==
  /\ RecentAnswered
  /\ Len(srv.agents) = 3
  /\ Len(srv.tests) = 2
  /\ srv.tests[1].updatedAt = 7
  /\ srv.tests[2].responseId = "ut-1-r2" /\ srv.tests[2].updatedAt = 4
  /\ srv.heard[2].outcome = "503"

\* C34: in every reachable state isChatPolling is true only if
\* currentChatResponseId holds an id, so the chat input is never disabled
\* with no poll running; also after a 200 reply of POST /chat without an id.
C34_ChatTrackingInvariant ==
  isChatPolling => currentChatResponseId \notin {null, undefined}

\* C35: a chat submission is accepted only when the input is not blank, no
\* send is in progress and no chat response is polled; so no POST /chat is
\* outstanding when one is issued, and currentChatResponseId, once it holds
\* an id, is only ever reset to null, never given another id.
ChatSubmitted == chatsSent' = chatsSent + 1

C35_OneChatExchangeInFlight ==
  [][/\ ChatSubmitted =>
          /\ ~isSendingChat /\ ~isChatPolling
          /\ sendReq.stage = "none"
          /\ sendReq'.msg \notin {"", "   "}
          /\ chatMessages'[Len(chatMessages')].content = sendReq'.msg
     /\ currentChatResponseId # null =>
          currentChatResponseId' \in {currentChatResponseId, null}]_vars

\* the second follow-up is polled after the first one completed
C35_Witness ==
  /\ chatsSent = 2
  /\ isChatPolling /\ currentChatResponseId = ChatIds[2]
  /\ chatEff.on
  /\ \E i \in 1..Len(chatMessages) :
        chatMessages[i].id = ChatIds[1] /\ chatMessages[i].status = "completed"

\* C36: when the history load completes after the user has submitted a chat
\* message, the user message and the agent placeholder of that submission
\* are still in the timeline: the user's text as a user message, the
\* placeholder under its response id, where a chat poll tick finds it.
HistoryLoadCompletes == mounted /\ ~isChatHistoryLoaded /\ isChatHistoryLoaded'

StillShown(m) ==
  \E j \in 1..Len(chatMessages') :
     /\ chatMessages'[j].type = m.type
     /\ chatMessages'[j].content = m.content
     /\ m.type = "agent" => chatMessages'[j].id = m.id

C36_HistoryKeepsLiveMessages ==
  [][HistoryLoadCompletes =>
       \A i \in 1..Len(chatMessages) :
          chatMessages[i].type \in {"user", "agent"} => StillShown(chatMessages[i])]_vars

\* C37: in every reachable state each agent message of the timeline whose
\* status is neither terminal nor busy_timeout is the response the chat
\* poller tracks; agent messages loaded from history included.
InFlight(m) ==
  /\ m.type = "agent"
  /\ ~isTerminal(m.status)
  /\ m.status # "busy_timeout"

C37_InFlightMessagesTracked ==
  \A i \in 1..Len(chatMessages) :
     InFlight(chatMessages[i]) => chatMessages[i].id = currentChatResponseId

\* C38: hidden agents stay hidden.  With the hidden list loaded from local
\* storage, the landing page never lists a test of an agent whose name is in the
\* hidden list, in whatever order the replies of its recent-tests fetches arrive.
C38_HiddenAgentsStayHidden ==
  home.open => ShownTests \cap home.hiddenAgents = {}

\* C39: the status line is bounded.  Whatever formatCommentary is given, it
\* returns none or a string of at most 140 characters with no line break and no
\* two whitespace characters in a row, and formatCommentary of that result is
\* the result again.
HasLineBreak(s) == \E i \in 1..Len(s) : s[i] = "\n"

HasWhitespaceRun(s) == \E i \in 1..(Len(s) - 1) : IsSpace(s[i]) /\ IsSpace(s[i + 1])

C39_StatusLineBound ==
  HasReturned("formatCommentary") =>
    /\ formatCommentary(call.out) = call.out
    /\ call.out # NoText =>
         /\ IsString(call.out)
         /\ Len(call.out.chars) <= 140
         /\ ~HasLineBreak(call.out.chars)
         /\ ~HasWhitespaceRun(call.out.chars)

\* a text longer than the bound, with a line break and a whitespace run in it,
\* came back cut and marked
C39_Witness ==
  /\ HasReturned("formatCommentary")
  /\ call.arg # NoText
  /\ Len(call.arg.chars) > 140
  /\ HasLineBreak(call.arg.chars)
  /\ HasWhitespaceRun(call.arg.chars)
  /\ call.out # NoText
  /\ call.out.chars[Len(call.out.chars)] = Ellipsis

====
